---- MODULE Spec2Model ----
(***************************************************************************)
(* A model of the priority task scheduler of audio-transcriber:            *)
(* core/task_manager.py (TaskManager, ProcessingTask) together with the    *)
(* status artifacts of core/file_manager.py that the scheduler writes and  *)
(* the DELETE /transcribe route of api/routes.py that purges them.         *)
(*                                                                         *)
(* All coroutines run on one asyncio event loop, so a handler is atomic    *)
(* from one suspension point (an await that really suspends) to the next.  *)
(* An action below is one such atomic stretch of a handler.                *)
(***************************************************************************)
EXTENDS Integers, Sequences, FiniteSets, TLC

\* ------------------------------------------------------------------ bounds
NumKeys == 3
MaxJobs == 2
MaxQueueJobs == 3
MaxTime == 2
NumRequests == 2
MaxStatusJobs == 1
MaxHttpJobs == 2
MaxInterruptJobs == 2
MaxProcesses == 2
MaxSignals == 3
MaxRetriesCfg == 3
NumLoops == 2
MaxLog == 3

\* ------------------------------------------------------- program constants
API == 1
AUTO_SCAN == 2
DefaultMaxRetries == 3
NoTask == 0
NoTime == -1
NoPosition == 0
NoRequest == 0
DefaultAvgTime == 60
StopTimeout == 30
MaxExistenceChecks == 3

Keys == 1..NumKeys
Loops == 1..NumLoops
Priorities == {API, AUTO_SCAN}
\* The parameter sets a TranscribeRequest may carry; NoRequest is the
\* missing request of handle_new_file.
Requests == 1..NumRequests

VARIABLES
    \* ---- TaskManager
    tasks,            \* the ProcessingTask objects ever created, by task_id
    now,              \* the clock read by datetime.now()
    max_retries,      \* config["max_retries"]
    stem,             \* Path(filename).stem of every filename
    interrupter,      \* a call of interrupt_processing and the engine's process
    app_task_manager, \* the TaskManager that app.py constructs at start-up
    task_queue,       \* _task_queue: the task_ids held by the PriorityQueue
    active_tasks,     \* _active_tasks: filename -> task_id
    completed_tasks,  \* _completed_tasks: filename -> task_id
    processing_task,  \* _processing_task: task_id or NoTask
    processing_active,\* _processing_active
    stop_processing,  \* _stop_processing
    current_process,  \* _current_process: TRUE when a process handle is set
    stats,            \* _stats: total_processed, total_errors, avg_processing_time
    \* ---- the coroutines running start_processing
    pc,               \* where each start_processing call is suspended
    cur,              \* its local variable task
    delay,            \* the delay it sleeps in the retry backoff
    stopper,          \* the coroutine running stop(): where it is suspended,
                      \* its local variable timeout, and what it reported
    \* ---- FileManager
    in_progress,      \* <stem>.in_progress artifact per stem, or NoArtifact
    result_file,      \* <stem>.result artifact per filename, or NoArtifact
    status_cache,     \* _status_cache
    \* ---- history (not program state)
    attempts,         \* per task_id, the number of engine invocations
    deq_log,          \* the calls of get_highest_priority_task that returned
                      \* a task since the last submit or delete (MaxLog at most)
    last_op,          \* the start_processing call that made the last step and
                      \* started no loop, if any
    purged,           \* filenames deleted while their Job was processing
                      \* and not submitted since
    interrupted       \* task_ids whose filename was deleted while they were
                      \* processing

vars == <<tasks, now, max_retries, stem, interrupter, app_task_manager,
          task_queue, active_tasks, completed_tasks,
          processing_task, processing_active, stop_processing, current_process,
          stats, pc, cur, delay, stopper, in_progress, result_file,
          status_cache, attempts, deq_log, last_op, purged, interrupted>>

\* Path(filename).stem when no two filenames of the directory differ only in
\* their extension: every filename has artifacts of its own (a stem is named
\* by the first filename that has it).
DistinctStems == [k \in Keys |-> k]

\* ... and when the first two filenames do (a.mp3 and a.wav): both name the
\* artifacts a.in_progress and a.result.
SharedStems == [k \in Keys |-> IF k = 2 THEN 1 ELSE k]

NoArtifact == [exists |-> FALSE]
NoOp == [op |-> "none"]
NoStop == [pc |-> "idle", timeout |-> 0, report |-> "none"]
NoProcess == 0

\* The TaskManager of app.py before the lifespan has constructed it.
NoManager ==
    [constructed |-> FALSE, task_queue |-> {}, active_tasks |-> << >>,
     processing_active |-> FALSE, stop_processing |-> FALSE, pc |-> "idle",
     cur |-> NoTask]

\* No call of interrupt_processing is under way and no process handle has
\* been registered: process is the state of the process that
\* _current_process names (or named last), proc_id numbers the processes,
\* signals lists what has been sent, and to which process.
NoInterrupt ==
    [pc |-> "idle", filename |-> 0, returned |-> "none", process |-> "none",
     proc_id |-> NoProcess, signals |-> << >>]

\* ------------------------------------------------------------ dictionaries
\* A Python dict is a function on the set of its keys.
Pop(d, k) == [x \in (DOMAIN d) \ {k} |-> d[x]]
Put(d, k, v) == [x \in (DOMAIN d) \cup {k} |-> IF x = k THEN v ELSE d[x]]

\* ---------------------------------------------------------- ProcessingTask
\* (a comparison that forgets the creation time)
ProcessingTask_lt_priority_only(a, b) == a.priority < b.priority

\* ProcessingTask.__lt__: lower priority number first, then older first.
ProcessingTask_lt(a, b) ==
    IF a.priority # b.priority
    THEN a.priority < b.priority
    ELSE a.created_at < b.created_at

NewTask(id, filename, priority, request, t) ==
    [task_id |-> id, filename |-> filename, priority |-> priority,
     status |-> "pending", created_at |-> t,
     transcribe_request |-> request, started_at |-> NoTime,
     completed_at |-> NoTime, error_message |-> "none", retry_count |-> 0]

\* ------------------------------------------------------------- float values
\* The float values of the statistics are kept exactly, as fractions in
\* lowest terms: the values met here are small integers divided by small
\* counts, of which Python's float arithmetic makes no rounding error that
\* a comparison between them could see.
RECURSIVE GCD(_, _)
GCD(a, b) == IF b = 0 THEN a ELSE GCD(b, a % b)

Float(n, d) ==
    LET g == GCD(n, d)
    IN [num |-> n \div g, den |-> d \div g]

FloatAdd(x, y) == Float(x.num * y.den + y.num * x.den, x.den * y.den)
FloatMul(x, y) == Float(x.num * y.num, x.den * y.den)
FloatDiv(x, n) == Float(x.num, x.den * n)

\* None where a float is expected.
NoFloat == [num |-> 0, den |-> 0]

\* ------------------------------------------------------------- TaskManager
\* (a removal that leaves the registry as it is)
remove_task_keeps_entry(active, filename) == active

\* remove_task: the registry without filename (the queue is left alone).
remove_task(active, filename) ==
    IF filename \in DOMAIN active THEN Pop(active, filename) ELSE active

\* get_queue_position counts a registered task ahead of the target when it
\* is pending and has a higher priority, or the same one and is older.
\* (a count that forgets the status of the other task)
CountsAhead_any_status(task, target) ==
    \/ task.priority < target.priority
    \/ /\ task.priority = target.priority
       /\ task.created_at < target.created_at

CountsAhead(task, target) ==
    /\ task.status = "pending"
    /\ \/ task.priority < target.priority
       \/ /\ task.priority = target.priority
          /\ task.created_at < target.created_at

\* The loop of get_queue_position over the other items of the registry.
RECURSIVE CountAhead(_, _, _, _)
CountAhead(filenames, filename, active, ts) ==
    IF filenames = {}
    THEN 0
    ELSE LET task_filename == CHOOSE f \in filenames : TRUE
             rest == CountAhead(filenames \ {task_filename}, filename,
                                active, ts)
         IN IF /\ task_filename # filename
               /\ CountsAhead(ts[active[task_filename]],
                              ts[active[filename]])
            THEN rest + 1
            ELSE rest

\* get_queue_position(filename): NoPosition is its None.
get_queue_position(filename, active, ts) ==
    IF filename \notin DOMAIN active
    THEN NoPosition
    ELSE IF ts[active[filename]].status # "pending"
    THEN NoPosition
    ELSE 1 + CountAhead(DOMAIN active, filename, active, ts)

\* get_queue_info: the pending and the processing tasks of the registry.
\* (completed_today, which compares calendar dates, is left out.)
get_queue_info(active, ts, st) ==
    LET pending_tasks == {active[f] : f \in {g \in DOMAIN active :
                                ts[active[g]].status = "pending"}}
        processing_tasks == {active[f] : f \in {g \in DOMAIN active :
                                ts[active[g]].status = "processing"}}
    IN [length |-> Cardinality(pending_tasks),
        processing |-> Cardinality(processing_tasks),
        tasks |-> {ts[x].filename : x \in pending_tasks},
        stats |-> st]

\* self._stats.get("avg_processing_time", 60.0): the key is set by __init__,
\* so the default of the lookup is never taken.
AvgTime(st) ==
    IF "avg_processing_time" \in DOMAIN st THEN st.avg_processing_time
    ELSE Float(DefaultAvgTime, 1)

\* get_estimated_wait_time(task_id): None for a task that the registry does
\* not hold or that is not pending.
get_estimated_wait_time(task_id, active, ts, st) ==
    IF \A f \in DOMAIN active : active[f] # task_id
    THEN NoFloat
    ELSE IF ts[task_id].status # "pending"
    THEN NoFloat
    ELSE LET queue_position ==
                 get_queue_position(ts[task_id].filename, active, ts)
         IN IF queue_position = NoPosition
            THEN NoFloat
            ELSE FloatMul(Float(queue_position - 1, 1), AvgTime(st))

\* get_task_info(filename): the task of the registry, else the task of the
\* completed-history map, else None (NoTask).
get_task_info(filename, active, completed) ==
    IF filename \in DOMAIN active
    THEN active[filename]
    ELSE IF filename \in DOMAIN completed
    THEN completed[filename]
    ELSE NoTask

Init ==
    /\ tasks = << >>
    /\ now = 0
    /\ max_retries \in 0..MaxRetriesCfg
    /\ stem = DistinctStems
    /\ task_queue = {}
    /\ active_tasks = << >>
    /\ completed_tasks = << >>
    /\ processing_task = NoTask
    /\ processing_active = FALSE
    /\ stop_processing = FALSE
    /\ current_process = FALSE
    /\ stats = [total_processed |-> 0, total_errors |-> 0,
                avg_processing_time |-> Float(0, 1)]
    /\ pc = [l \in Loops |-> "idle"]
    /\ cur = [l \in Loops |-> NoTask]
    /\ delay = [l \in Loops |-> 0]
    /\ stopper = NoStop
    /\ interrupter = NoInterrupt
    /\ app_task_manager = NoManager
    /\ in_progress = [k \in Keys |-> NoArtifact]
    /\ result_file = [k \in Keys |-> NoArtifact]
    /\ status_cache = << >>
    /\ attempts = << >>
    /\ deq_log = << >>
    /\ last_op = NoOp
    /\ purged = {}
    /\ interrupted = {}

\* Filenames are interchangeable: a call names a filename some task has
\* had, or the first filename that none has had yet.
UsedKeys == {tasks[i].filename : i \in DOMAIN tasks}
CallKeys == {k \in Keys : k <= Cardinality(UsedKeys) + 1}

\* So are the parameter sets of the requests.
UsedRequests ==
    {tasks[i].transcribe_request : i \in DOMAIN tasks} \ {NoRequest}
CallRequests == {r \in Requests : r <= Cardinality(UsedRequests) + 1}

\* The submissions the scheduler receives: POST /transcribe submits with API
\* priority and its request, the directory scan with AUTO_SCAN priority and
\* no request.
Submissions ==
    {<<API, r>> : r \in CallRequests} \cup {<<AUTO_SCAN, NoRequest>>}

\* The readings datetime.now() may give: the clock does not run backwards,
\* and it is read again as it was or one unit later.
ClockReadings == {t \in {now, now + 1} : t <= MaxTime}

\* (a loop that sleeps its backoff inside the block of the queue lock)
QueueLockHeldAt_backoff(p) == p = "backoff"

\* The queue lock while the loop is suspended at p: the lock is a
\* threading.Lock taken in `with` blocks that contain no await, so the loop
\* holds it at none of its suspension points; the backoff sleep precedes the
\* block that re-queues the task.
QueueLockHeldAt(p) == p \in {}

\* `with self._queue_lock` in a client call: the call goes on when no loop
\* holds the lock.
QueueLockFree == \A l \in Loops : ~QueueLockHeldAt(pc[l])

\* add_task(filename, priority, transcribe_request), the clock reading t: a
\* fresh task replaces the registry entry of filename and is put into the
\* queue.
add_task(filename, priority, request, t) ==
    /\ QueueLockFree
    /\ LET task_id == Len(tasks) + 1
           task == NewTask(task_id, filename, priority, request, t)
       IN /\ tasks' = Append(tasks, task)
          /\ task_queue' = task_queue \cup {task_id}
          /\ active_tasks' = Put(remove_task(active_tasks, filename),
                                 filename, task_id)
          /\ attempts' = Append(attempts, 0)
    /\ last_op' = NoOp
    /\ now' = t
    /\ purged' = purged \ {filename}
    /\ deq_log' = << >>
    /\ UNCHANGED <<max_retries, stem, app_task_manager, interrupter, stopper, completed_tasks, processing_task,
                   processing_active, stop_processing, current_process, stats,
                   pc, cur, delay, in_progress, result_file, status_cache,
                   interrupted>>

\* A client (the HTTP route, the directory scan) submits a file.
AddTask(filename, priority, request, t) ==
    /\ Len(tasks) < MaxJobs
    /\ add_task(filename, priority, request, t)

\* ------------------------------------------------------------- FileManager
\* update_status_file: the in-progress artifact is rewritten whole from
\* status and additional_data, and the cache entry is set to the same data.
\* (The timestamps written beside them are left out of the artifact.)
StatusData(status, task_id, progress, error, retry_count) ==
    [exists |-> TRUE, status |-> status, task_id |-> task_id,
     progress |-> progress, error |-> error, retry_count |-> retry_count]

update_status_file(s, filename, data) ==
    [s EXCEPT !.in_progress[stem[filename]] = data,
              !.status_cache = Put(@, filename, data)]

\* save_result: the result artifact of filename holds the engine's result.
save_result(s, filename, result) ==
    [s EXCEPT !.result_file[stem[filename]] = [exists |-> TRUE, result |-> result]]

\* The fields of the Result the engine adapter returns
\* (api.models.TranscriptionResult), which are the keys of the result
\* artifact.
ResultFields ==
    {"filename", "language", "duration", "text", "segments", "word_count",
     "confidence_avg", "model_used", "processing_time", "timestamp"}

\* The keys load_result reads from the artifact, which are the fields of the
\* TranscriptionResult dataclass of file_manager.py.
LoadedFields ==
    {"filename", "text", "status", "model_used", "language", "confidence",
     "duration", "file_size", "timestamp"}

\* The JSON object of a Result: under every key the value of that field of
\* the result.
ResultJson(result) == [f \in ResultFields |-> <<f, result>>]

\* None, returned for a result.
NoResult == [none |-> TRUE]

\* load_result: None without the artifact; a key that the artifact does not
\* hold raises KeyError, which is caught, and None is returned; otherwise
\* the dataclass built from the keys read.
load_result(artifact) ==
    IF ~artifact.exists
    THEN NoResult
    ELSE LET data == ResultJson(artifact.result)
         IN IF LoadedFields \subseteq DOMAIN data
            THEN [f \in LoadedFields |-> data[f]]
            ELSE NoResult

\* delete_all_related_files: the artifacts of filename are unlinked and its
\* cache entry is cleared.
delete_all_related_files(s, filename) ==
    [s EXCEPT !.in_progress[stem[filename]] = NoArtifact,
              !.result_file[stem[filename]] = NoArtifact,
              !.status_cache = IF filename \in DOMAIN @
                               THEN Pop(@, filename) ELSE @]

\* A status entry (of the cache or of an in-progress artifact) whose status
\* field is present; "none" stands for a missing field.
HasStatus(data) == data.status # "none"

\* (a resolution that looks at the result artifact before the in-progress one)
get_file_status_result_first(filename, file_exists, cache, inprog, result, active, completed) ==
    IF filename \in DOMAIN cache /\ HasStatus(cache[filename])
    THEN [status |-> cache[filename].status, status_cache |-> cache]
    ELSE IF result[stem[filename]].exists
    THEN [status |-> "completed",
          status_cache |-> Put(cache, filename,
                               [exists |-> TRUE, status |-> "completed"])]
    ELSE IF inprog[stem[filename]].exists
    THEN [status |-> IF HasStatus(inprog[stem[filename]])
                     THEN inprog[stem[filename]].status ELSE "processing",
          status_cache |-> Put(cache, filename, inprog[stem[filename]])]
    ELSE IF get_task_info(filename, active, completed) # NoTask
    THEN [status |-> "pending", status_cache |-> cache]
    ELSE IF file_exists
    THEN [status |-> "pending", status_cache |-> cache]
    ELSE [status |-> "not_found", status_cache |-> cache]

\* get_file_status(filename), with file_exists the answer file_exists(filename)
\* gives: the status returned ("not_found" is its None) and the cache it
\* leaves. A cache entry without a status is passed over.
get_file_status(filename, file_exists, cache, inprog, result, active, completed) ==
    IF filename \in DOMAIN cache /\ HasStatus(cache[filename])
    THEN [status |-> cache[filename].status, status_cache |-> cache]
    ELSE IF inprog[stem[filename]].exists
    THEN [status |-> IF HasStatus(inprog[stem[filename]])
                     THEN inprog[stem[filename]].status ELSE "processing",
          status_cache |-> Put(cache, filename, inprog[stem[filename]])]
    ELSE IF result[stem[filename]].exists
    THEN [status |-> "completed",
          status_cache |-> Put(cache, filename,
                               [exists |-> TRUE, status |-> "completed"])]
    ELSE IF get_task_info(filename, active, completed) # NoTask
    THEN [status |-> "pending", status_cache |-> cache]
    ELSE IF file_exists
    THEN [status |-> "pending", status_cache |-> cache]
    ELSE [status |-> "not_found", status_cache |-> cache]

\* ------------------------------------------------- the processing coroutine
\* The state a stretch of the coroutine reads and writes, as one record.
Sched ==
    [tasks |-> tasks, task_queue |-> task_queue,
     active_tasks |-> active_tasks, completed_tasks |-> completed_tasks,
     processing_task |-> processing_task,
     processing_active |-> processing_active, stats |-> stats,
     in_progress |-> in_progress, result_file |-> result_file,
     status_cache |-> status_cache, attempts |-> attempts]

SetSched(s) ==
    /\ tasks' = s.tasks
    /\ task_queue' = s.task_queue
    /\ active_tasks' = s.active_tasks
    /\ completed_tasks' = s.completed_tasks
    /\ processing_task' = s.processing_task
    /\ processing_active' = s.processing_active
    /\ stats' = s.stats
    /\ in_progress' = s.in_progress
    /\ result_file' = s.result_file
    /\ status_cache' = s.status_cache
    /\ attempts' = s.attempts

\* The entries of the queue that get_highest_priority_task keeps: those whose
\* filename is still a key of the registry.
ValidTasks(queue, active, ts) ==
    {t \in queue : ts[t].filename \in DOMAIN active}

\* get_highest_priority_task: the queue is drained in heap order, the entries
\* that are not valid are dropped, the first valid one is returned and the
\* others are put back. Each possible outcome is [next_task, task_queue]; the
\* heap may yield any entry that no other valid entry is less than.
get_highest_priority_task(queue, active, ts) ==
    LET valid == ValidTasks(queue, active, ts)
    IN IF valid = {}
       THEN {[next_task |-> NoTask, task_queue |-> {}]}
       ELSE {[next_task |-> t, task_queue |-> valid \ {t}] :
                t \in {u \in valid :
                         \A v \in valid : ~ProcessingTask_lt(ts[v], ts[u])}}

\* (a start that calls the engine without writing the in-progress artifact)
BeginTask_unwritten(s, t) ==
    LET s1 == [s EXCEPT !.tasks[t].status = "processing",
                        !.tasks[t].started_at = now,
                        !.processing_task = t]
    IN [s1 EXCEPT !.attempts[t] = @ + 1]

\* _process_task up to the engine call: the task is marked and the
\* in-progress artifact is written with progress 0.
BeginTask(s, t) ==
    LET s1 == [s EXCEPT !.tasks[t].status = "processing",
                        !.tasks[t].started_at = now,
                        !.processing_task = t]
        s2 == update_status_file(s1, s.tasks[t].filename,
                  StatusData("processing", t, 0, "none", -1))
    IN [s2 EXCEPT !.attempts[t] = @ + 1]

\* The finally clause of _process_task.
Finally(s) == [s EXCEPT !.processing_task = NoTask]

\* _update_stats
update_stats(st, processing_time, success) ==
    IF success
    THEN LET total == st.total_processed + 1
             current_avg == st.avg_processing_time
         IN [st EXCEPT !.total_processed = total,
                       !.avg_processing_time =
                           FloatDiv(FloatAdd(FloatMul(current_avg,
                                                      Float(total - 1, 1)),
                                             Float(processing_time, 1)),
                                    total)]
    ELSE [st EXCEPT !.total_errors = @ + 1]

\* (a move that leaves the registry entry in place)
MoveToCompleted_history_only(s, t) ==
    [s EXCEPT !.completed_tasks = Put(@, s.tasks[t].filename, t)]

\* The registry and the history map after a task has finished.
MoveToCompleted(s, t) ==
    LET filename == s.tasks[t].filename
    IN [s EXCEPT !.active_tasks = remove_task(@, filename),
                 !.completed_tasks = Put(@, filename, t)]

\* _process_task after the engine has returned a result.
CompleteTask(s, t) ==
    LET filename == s.tasks[t].filename
        result == [filename |-> filename,
                   request |-> s.tasks[t].transcribe_request]
        s1 == save_result(s, filename, result)
        s2 == [s1 EXCEPT !.tasks[t].status = "completed",
                         !.tasks[t].completed_at = now]
        s3 == update_status_file(s2, filename,
                  StatusData("completed", t, 100, "none", -1))
        s4 == MoveToCompleted(s3, t)
        processing_time == s2.tasks[t].completed_at - s2.tasks[t].started_at
    IN Finally([s4 EXCEPT !.stats = update_stats(@, processing_time, TRUE)])

\* (a retry decision that allows one attempt too many)
CanRetry_one_more(retry_count, limit) == retry_count <= limit

\* The retry decision of _process_task: retry_count is already incremented.
CanRetry(retry_count, limit) == retry_count < limit

\* (a delay computed from the count before the increment)
BackoffDelay_before_increment(retry_count) == 2 ^ (retry_count - 1)

\* The backoff delay of a retry.
BackoffDelay(retry_count) == 2 ^ retry_count

\* _process_task when the engine has failed: the failure is counted.
CountFailure(s, t) ==
    [s EXCEPT !.tasks[t].retry_count = @ + 1,
              !.tasks[t].error_message = "error"]

\* (a retry that leaves the task marked as failed)
PrepareRetry_marks_error(s, t) ==
    [s EXCEPT !.tasks[t].status = "error",
              !.tasks[t].started_at = NoTime]

\* (a retry that puts the task back before it sleeps)
PrepareRetry_requeues_first(s, t) ==
    [s EXCEPT !.tasks[t].status = "pending",
              !.tasks[t].started_at = NoTime,
              !.task_queue = @ \cup {t}]

\* (a retry that leaves the start time of the failed attempt in place)
PrepareRetry_keeps_started_at(s, t) ==
    [s EXCEPT !.tasks[t].status = "pending"]

\* ... and a retry is prepared (the coroutine then sleeps for the delay)
PrepareRetry(s, t) ==
    [s EXCEPT !.tasks[t].status = "pending",
              !.tasks[t].started_at = NoTime]

\* (a terminal failure that is not written to the status file)
FailTask_unrecorded(s, t) ==
    LET s1 == [s EXCEPT !.tasks[t].status = "error",
                        !.tasks[t].completed_at = now]
        s3 == MoveToCompleted(s1, t)
    IN Finally([s3 EXCEPT !.stats = update_stats(@, 0, FALSE)])

\* ... or the retries are exhausted.
FailTask(s, t) ==
    LET filename == s.tasks[t].filename
        s1 == [s EXCEPT !.tasks[t].status = "error",
                        !.tasks[t].completed_at = now]
        s2 == update_status_file(s1, filename,
                  StatusData("error", t, -1, s1.tasks[t].error_message,
                             s1.tasks[t].retry_count))
        s3 == MoveToCompleted(s2, t)
    IN Finally([s3 EXCEPT !.stats = update_stats(@, 0, FALSE)])

\* (a re-enqueue that stamps the task as if it were created now)
Requeue_restamped(s, t) ==
    Finally([s EXCEPT !.task_queue = @ \cup {t},
                      !.tasks[t].created_at = now])

\* _process_task after the backoff sleep: the task is put back.
Requeue(s, t) == Finally([s EXCEPT !.task_queue = @ \cup {t}])

LogDequeue(s, o) ==
    IF Len(deq_log) < MaxLog
    THEN Append(deq_log,
                [ret |-> o.next_task,
                 valid |-> ValidTasks(s.task_queue, s.active_tasks, s.tasks),
                 registered |-> s.active_tasks[s.tasks[o.next_task].filename]])
    ELSE deq_log

\* One turn of the while loop of start_processing, from its test to the next
\* suspension point, taken from the state s that the stretch before it left.
LoopTop(l, s, stop) ==
    IF stop
    THEN /\ SetSched([s EXCEPT !.processing_active = FALSE])
         /\ pc' = [pc EXCEPT ![l] = "idle"]
         /\ cur' = [cur EXCEPT ![l] = NoTask]
         /\ delay' = [delay EXCEPT ![l] = 0]
         /\ deq_log' = deq_log
    ELSE \E o \in get_highest_priority_task(s.task_queue, s.active_tasks,
                                            s.tasks) :
           IF o.next_task = NoTask
           THEN /\ SetSched([s EXCEPT !.task_queue = o.task_queue])
                /\ pc' = [pc EXCEPT ![l] = "sleep_empty"]
                /\ cur' = [cur EXCEPT ![l] = NoTask]
                /\ delay' = [delay EXCEPT ![l] = 0]
                /\ deq_log' = deq_log
           ELSE /\ SetSched(BeginTask([s EXCEPT !.task_queue = o.task_queue],
                                      o.next_task))
                /\ pc' = [pc EXCEPT ![l] = "engine"]
                /\ cur' = [cur EXCEPT ![l] = o.next_task]
                /\ delay' = [delay EXCEPT ![l] = 0]
                /\ deq_log' = LogDequeue(s, o)

\* One turn of the while loop of start_processing on the TaskManager m of
\* app.py, with o the outcome of its get_highest_priority_task.
AppLoopTop(m, o) ==
    IF m.stop_processing
    THEN [m EXCEPT !.processing_active = FALSE, !.pc = "idle"]
    ELSE IF o.next_task = NoTask
    THEN [m EXCEPT !.task_queue = o.task_queue, !.pc = "sleep_empty"]
    ELSE [m EXCEPT !.task_queue = o.task_queue, !.pc = "engine",
                   !.cur = o.next_task]

\* The start-up of lifespan: a TaskManager is constructed and its
\* start_processing is made a task, which takes its first turn. The routes
\* and the FileManager do not use this object: they call
\* get_task_manager(), whose object is the one the other variables describe.
Lifespan ==
    /\ ~app_task_manager.constructed
    /\ LET m == [NoManager EXCEPT !.constructed = TRUE,
                                  !.processing_active = TRUE]
       IN \E o \in get_highest_priority_task(m.task_queue, m.active_tasks,
                                              tasks) :
             app_task_manager' = AppLoopTop(m, o)
    /\ last_op' = NoOp
    /\ UNCHANGED <<tasks, now, max_retries, stem, interrupter, stopper,
                   task_queue, active_tasks, completed_tasks,
                   processing_task, processing_active, stop_processing,
                   current_process, stats, pc, cur, delay, in_progress,
                   result_file, status_cache, attempts, deq_log, purged,
                   interrupted>>

\* asyncio.sleep(1) of the loop of app.py's TaskManager is over: its queue
\* is looked at again.
AppWakeEmpty ==
    /\ app_task_manager.pc = "sleep_empty"
    /\ \E o \in get_highest_priority_task(app_task_manager.task_queue,
                                           app_task_manager.active_tasks,
                                           tasks) :
          app_task_manager' = AppLoopTop(app_task_manager, o)
    /\ last_op' = NoOp
    /\ UNCHANGED <<tasks, now, max_retries, stem, interrupter, stopper,
                   task_queue, active_tasks, completed_tasks,
                   processing_task, processing_active, stop_processing,
                   current_process, stats, pc, cur, delay, in_progress,
                   result_file, status_cache, attempts, deq_log, purged,
                   interrupted>>

\* (a guard that never finds the loop active)
IsProcessingActive_never == FALSE

\* The guard of start_processing.
IsProcessingActive == processing_active

\* start_processing() from its first statement to its first suspension
\* point, run by coroutine l: it returns at once when a loop is active, and
\* otherwise clears the stop flag, becomes the loop and takes its first turn.
start_processing(l) ==
    /\ IF IsProcessingActive
       THEN /\ last_op' = [op |-> "start_processing", started |-> FALSE]
            /\ pc' = [pc EXCEPT ![l] = "idle"]
            /\ UNCHANGED <<tasks, task_queue, active_tasks, completed_tasks,
                           processing_task, processing_active,
                           stop_processing, stats, cur, delay,
                           in_progress, result_file, status_cache, attempts,
                           deq_log>>
       ELSE /\ last_op' = NoOp
            /\ stop_processing' = FALSE
            /\ LoopTop(l, [Sched EXCEPT !.processing_active = TRUE], FALSE)
    /\ UNCHANGED <<now, max_retries, stem, app_task_manager, interrupter, stopper, current_process, purged, interrupted>>

\* start_processing is called and runs at once. The call is coroutine l;
\* coroutines are interchangeable, so a new call is the first free one.
StartProcessing(l) ==
    /\ pc[l] = "idle"
    /\ \A m \in Loops : m < l => pc[m] # "idle"
    /\ start_processing(l)

\* asyncio.create_task(task_manager.start_processing()) in lifespan: the
\* coroutine is made a task of the event loop, which has not run it yet.
\* This happens once, at start-up: no coroutine exists and stop() was not
\* called.
CreateLoopTask ==
    /\ \A l \in Loops : pc[l] = "idle"
    /\ ~processing_active
    /\ stopper = NoStop
    /\ pc' = [pc EXCEPT ![1] = "created"]
    /\ last_op' = NoOp
    /\ UNCHANGED <<tasks, now, max_retries, stem, app_task_manager, interrupter, stopper, task_queue,
                   active_tasks, completed_tasks, processing_task,
                   processing_active, stop_processing, current_process,
                   stats, cur, delay, in_progress, result_file,
                   status_cache, attempts, deq_log, purged, interrupted>>

\* The event loop runs the task for the first time.
LoopFirstStep(l) ==
    /\ pc[l] = "created"
    /\ start_processing(l)

\* asyncio.sleep(1) on an empty queue is over.
WakeEmpty(l) ==
    /\ pc[l] = "sleep_empty"
    /\ LoopTop(l, Sched, stop_processing)
    /\ last_op' = NoOp
    /\ UNCHANGED <<now, max_retries, stem, app_task_manager, interrupter, stopper, stop_processing, current_process, purged, interrupted>>

\* process.communicate() in the engine adapter: when the process of the call
\* is the registered one, the adapter returns only after the process has
\* exited, and it returns a result only if the process exited by itself.
EngineMayReturn(success) ==
    current_process =>
       IF success
       THEN interrupter.process = "exited"
       ELSE interrupter.process \in {"exited", "terminated", "killed"}

\* The engine adapter returns a result to _process_task; the finally clause
\* clears the process handle.
EngineSuccess(l) ==
    /\ pc[l] = "engine"
    /\ EngineMayReturn(TRUE)
    /\ LoopTop(l, CompleteTask(Sched, cur[l]), stop_processing)
    /\ current_process' = FALSE
    /\ last_op' = NoOp
    /\ UNCHANGED <<now, max_retries, stem, app_task_manager, interrupter, stopper,
                   stop_processing, purged, interrupted>>

\* The engine adapter raises (engine failure, timeout, missing source file).
EngineFailure(l) ==
    /\ pc[l] = "engine"
    /\ EngineMayReturn(FALSE)
    /\ LET t == cur[l]
           s1 == CountFailure(Sched, t)
       IN IF CanRetry(s1.tasks[t].retry_count, max_retries)
          THEN /\ SetSched(PrepareRetry(s1, t))
               /\ pc' = [pc EXCEPT ![l] = "backoff"]
               /\ delay' = [delay EXCEPT
                              ![l] = BackoffDelay(s1.tasks[t].retry_count)]
               /\ UNCHANGED <<cur, deq_log, current_process>>
          ELSE /\ LoopTop(l, FailTask(s1, t), stop_processing)
               /\ current_process' = FALSE
    /\ last_op' = NoOp
    /\ UNCHANGED <<now, max_retries, stem, app_task_manager, interrupter, stopper,
                   stop_processing, purged, interrupted>>

\* asyncio.sleep(delay) of the retry backoff is over.
BackoffDone(l) ==
    /\ pc[l] = "backoff"
    /\ LoopTop(l, Requeue(Sched, cur[l]), stop_processing)
    /\ current_process' = FALSE
    /\ last_op' = NoOp
    /\ UNCHANGED <<now, max_retries, stem, app_task_manager, interrupter, stopper,
                   stop_processing, purged, interrupted>>

\* The condition of interrupt_processing(filename): it acts only on the
\* processing file and only with a process handle set. No statement of the
\* program sets the handle, so in the program the call returns False and
\* changes nothing.
CanInterrupt(filename) ==
    /\ processing_task # NoTask
    /\ tasks[processing_task].filename = filename
    /\ current_process

\* A caller registers the subprocess of the running engine call as
\* _current_process. (The engine adapter leaves the assignment commented
\* out; the handle is taken to be one that has terminate, poll and kill.)
RegisterProcess(l) ==
    /\ pc[l] = "engine"
    /\ processing_task = cur[l]
    /\ ~current_process
    /\ interrupter.proc_id < MaxProcesses
    /\ current_process' = TRUE
    /\ interrupter' = [interrupter EXCEPT !.process = "running",
                                          !.proc_id = @ + 1]
    /\ last_op' = NoOp
    /\ UNCHANGED <<tasks, now, max_retries, stem, app_task_manager, stopper, task_queue,
                   active_tasks, completed_tasks, processing_task,
                   processing_active, stop_processing, stats, pc, cur,
                   delay, in_progress, result_file, status_cache, attempts,
                   deq_log, purged, interrupted>>

\* The last signal sent to the registered process, "none" if there is none.
LastSignal ==
    LET mine == {i \in DOMAIN interrupter.signals :
                   interrupter.signals[i].proc_id = interrupter.proc_id}
    IN IF mine = {} THEN "none"
       ELSE interrupter.signals[CHOOSE i \in mine : \A j \in mine : j <= i].sig

\* The registered process exits: by itself, or upon the termination request
\* it has received.
ProcessExits ==
    /\ interrupter.process = "running"
    /\ interrupter' = [interrupter EXCEPT
                          !.process = IF LastSignal = "terminate"
                                      THEN "terminated" ELSE "exited"]
    /\ last_op' = NoOp
    /\ UNCHANGED <<tasks, now, max_retries, stem, app_task_manager, stopper, task_queue,
                   active_tasks, completed_tasks, processing_task,
                   processing_active, stop_processing, current_process,
                   stats, pc, cur, delay, in_progress, result_file,
                   status_cache, attempts, deq_log, purged, interrupted>>

\* self._current_process.poll() is None
StillRunning(process) == process = "running"

\* interrupt_processing(filename) up to its sleep: False at once unless
\* filename is being processed and a handle is set; otherwise terminate()
\* is sent and the call sleeps for the grace period.
InterruptCall(filename) ==
    /\ interrupter.pc = "idle"
    /\ Len(interrupter.signals) < MaxSignals
    /\ IF CanInterrupt(filename)
       THEN interrupter' =
              [interrupter EXCEPT
                 !.pc = "grace", !.filename = filename, !.returned = "none",
                 !.signals = Append(@, [sig |-> "terminate",
                                        proc_id |-> interrupter.proc_id])]
       ELSE interrupter' = [interrupter EXCEPT !.filename = filename,
                                               !.returned = "false"]
    /\ last_op' = NoOp
    /\ UNCHANGED <<tasks, now, max_retries, stem, app_task_manager, stopper, task_queue,
                   active_tasks, completed_tasks, processing_task,
                   processing_active, stop_processing, current_process,
                   stats, pc, cur, delay, in_progress, result_file,
                   status_cache, attempts, deq_log, purged, interrupted>>

\* interrupt_processing after asyncio.sleep(2): the handle is read again
\* from self._current_process. When the finally clause of _process_task has
\* cleared it, poll() is called on None, the AttributeError is caught and
\* the call returns False; otherwise the process the handle names now is
\* killed if it is still running, and the call returns True.
InterruptWake ==
    /\ interrupter.pc = "grace"
    /\ IF ~current_process
       THEN interrupter' = [interrupter EXCEPT !.pc = "idle",
                                               !.returned = "false"]
       ELSE IF StillRunning(interrupter.process)
       THEN interrupter' =
              [interrupter EXCEPT
                 !.pc = "idle", !.returned = "true", !.process = "killed",
                 !.signals = Append(@, [sig |-> "kill",
                                        proc_id |-> interrupter.proc_id])]
       ELSE interrupter' = [interrupter EXCEPT !.pc = "idle",
                                               !.returned = "true"]
    /\ last_op' = NoOp
    /\ UNCHANGED <<tasks, now, max_retries, stem, app_task_manager, stopper, task_queue,
                   active_tasks, completed_tasks, processing_task,
                   processing_active, stop_processing, current_process,
                   stats, pc, cur, delay, in_progress, result_file,
                   status_cache, attempts, deq_log, purged, interrupted>>

\* stop() as the scheduler sees it: the loop is told to stop; without a
\* process handle nothing is interrupted, and the polling that follows
\* writes only the local variable of the call, which is followed by
\* StopCall and StopPoll.
Stop ==
    /\ ~current_process
    /\ stop_processing' = TRUE
    /\ last_op' = NoOp
    /\ UNCHANGED <<tasks, now, max_retries, stem, app_task_manager, interrupter, stopper, task_queue, active_tasks,
                   completed_tasks, processing_task, processing_active,
                   current_process, stats, pc, cur, delay, in_progress,
                   result_file, status_cache, attempts, deq_log, purged, interrupted>>

\* (a wait that gives up at once)
StopPollAgain_never(active, timeout) == FALSE

\* The test of the polling loop of stop().
StopPollAgain(active, timeout) == active /\ timeout > 0

\* stop() from the test of its polling loop on: it sleeps for another poll,
\* or it returns and logs whether the loop has stopped.
StopWait(timeout) ==
    IF StopPollAgain(processing_active, timeout)
    THEN [pc |-> "polling", timeout |-> timeout, report |-> "none"]
    ELSE [pc |-> "idle", timeout |-> timeout,
          report |-> IF processing_active
                     THEN "not_graceful" ELSE "stopped"]

\* stop() is called: the stop flag is set, nothing is interrupted without a
\* process handle, and the wait for the loop begins with timeout = 30.
StopCall ==
    /\ stopper.pc = "idle"
    /\ ~current_process
    /\ stop_processing' = TRUE
    /\ stopper' = StopWait(StopTimeout)
    /\ last_op' = NoOp
    /\ UNCHANGED <<tasks, now, max_retries, stem, app_task_manager, interrupter, task_queue, active_tasks,
                   completed_tasks, processing_task, processing_active,
                   current_process, stats, pc, cur, delay, in_progress,
                   result_file, status_cache, attempts, deq_log, purged,
                   interrupted>>

\* asyncio.sleep(1) of stop() is over: timeout -= 1 and the test again.
StopPoll ==
    /\ stopper.pc = "polling"
    /\ stopper' = StopWait(stopper.timeout - 1)
    /\ last_op' = NoOp
    /\ UNCHANGED <<tasks, now, max_retries, stem, app_task_manager, interrupter, task_queue, active_tasks,
                   completed_tasks, processing_task, processing_active,
                   stop_processing, current_process, stats, pc, cur, delay,
                   in_progress, result_file, status_cache, attempts, deq_log,
                   purged, interrupted>>

\* DELETE /transcribe: remove_task, interrupt_processing and
\* delete_all_related_files, none of which suspends without a process handle.
DeleteTranscription(filename) ==
    /\ ~CanInterrupt(filename)
    /\ QueueLockFree
    /\ LET in_flight == /\ processing_task # NoTask
                        /\ tasks[processing_task].filename = filename
                        /\ tasks[processing_task].status = "processing"
           s1 == [Sched EXCEPT !.active_tasks = remove_task(@, filename)]
           s2 == delete_all_related_files(s1, filename)
       IN /\ SetSched(s2)
          /\ purged' = IF in_flight THEN purged \cup {filename} ELSE purged
          /\ interrupted' = IF in_flight
                            THEN interrupted \cup {processing_task}
                            ELSE interrupted
          /\ last_op' = NoOp
          /\ deq_log' = << >>
          /\ UNCHANGED <<now, max_retries, stem, app_task_manager, interrupter, stopper, stop_processing, current_process, pc,
                         cur, delay>>

\* handle_new_file(filename, auto_scan): the directory watcher and the
\* start-up scan submit a file without a request.
HandleNewFile(filename, auto_scan, t) ==
    /\ Len(tasks) < MaxQueueJobs
    /\ add_task(filename, IF auto_scan THEN AUTO_SCAN ELSE API, NoRequest, t)

\* (a status query that tidies up: it unlinks the in-progress artifact of a
\* file that has a result)
StatusQuery_tidies_up(filename, file_exists) ==
    LET reply == get_file_status(filename, file_exists, status_cache, in_progress, result_file, active_tasks, completed_tasks)
    IN /\ status_cache' = reply.status_cache
       /\ in_progress' = IF result_file[stem[filename]].exists
                         THEN [in_progress EXCEPT ![stem[filename]] = NoArtifact]
                         ELSE in_progress
       /\ last_op' = [op |-> "get_file_status", filename |-> filename,
                      file_exists |-> file_exists, status |-> reply.status]
       /\ UNCHANGED <<tasks, now, max_retries, stem, app_task_manager, interrupter, stopper, task_queue,
                      active_tasks, completed_tasks, processing_task,
                      processing_active, stop_processing, current_process,
                      stats, pc, cur, delay, result_file, attempts, deq_log,
                      purged, interrupted>>

\* GET /status -> get_file_status(filename): the source directory answers
\* file_exists, the status is returned to the caller and the cache keeps
\* what was read from an artifact.
StatusQuery(filename, file_exists) ==
    LET reply == get_file_status(filename, file_exists, status_cache,
                                 in_progress, result_file, active_tasks,
                                 completed_tasks)
    IN /\ status_cache' = reply.status_cache
       /\ last_op' = [op |-> "get_file_status", filename |-> filename,
                      file_exists |-> file_exists, status |-> reply.status]
       /\ UNCHANGED <<tasks, now, max_retries, stem, app_task_manager, interrupter, stopper, task_queue, active_tasks,
                      completed_tasks, processing_task, processing_active,
                      stop_processing, current_process, stats, pc, cur,
                      delay, in_progress, result_file, attempts, deq_log,
                      purged, interrupted>>

\* handle_new_file(filename, auto_scan=True).
SubmitFile(filename, t) ==
    /\ Len(tasks) < MaxStatusJobs
    /\ add_task(filename, AUTO_SCAN, NoRequest, t)

\* ------------------------------------------------------ POST /transcribe
\* The answers file_exists(filename) gives at the attempts of the route: the
\* file may appear or disappear between two attempts, which are a second
\* apart.
ExistenceChecks == [1..MaxExistenceChecks -> BOOLEAN]

\* (a route that goes on without the file)
FileFound_unchecked(checks) == TRUE

\* `for attempt in range(3)`: the loop leaves at the first attempt that
\* finds the file.
FileFound(checks) == \E attempt \in 1..MaxExistenceChecks : checks[attempt]

\* (a matrix that submits a completed file again)
ShouldSubmit_completed_too(status) ==
    status \in {"pending", "error", "not_found", "completed"}

\* The branch `current_status in [PENDING, ERROR, None]` of the matrix.
ShouldSubmit(status) == status \in {"pending", "error", "not_found"}

\* transcribe_audio(request) for request.filename, with the parameters
\* request and the clock reading t of add_task: FILE_NOT_FOUND when no
\* attempt finds the file; otherwise the status is resolved (which may fill
\* the cache from an artifact) and the matrix either answers with it or
\* submits a task with API priority and answers PENDING.
TranscribeAudio(filename, request, checks, t) ==
    IF ~FileFound(checks)
    THEN /\ last_op' = [op |-> "transcribe", filename |-> filename,
                        checks |-> checks, status |-> "file_not_found",
                        task_id |-> NoTask]
         /\ UNCHANGED <<tasks, now, max_retries, stem, app_task_manager, interrupter, stopper, task_queue, active_tasks,
                        completed_tasks, processing_task, processing_active,
                        stop_processing, current_process, stats, pc, cur,
                        delay, in_progress, result_file, status_cache,
                        attempts, deq_log, purged, interrupted>>
    ELSE LET reply == get_file_status(filename, TRUE, status_cache,
                                      in_progress, result_file, active_tasks,
                                      completed_tasks)
             task_id == Len(tasks) + 1
         IN IF ShouldSubmit(reply.status)
            THEN /\ Len(tasks) < MaxHttpJobs
                 /\ QueueLockFree
                 /\ status_cache' = reply.status_cache
                 /\ tasks' = Append(tasks, NewTask(task_id, filename, API,
                                                   request, t))
                 /\ task_queue' = task_queue \cup {task_id}
                 /\ active_tasks' = Put(remove_task(active_tasks, filename),
                                        filename, task_id)
                 /\ attempts' = Append(attempts, 0)
                 /\ now' = t
                 /\ purged' = purged \ {filename}
                 /\ deq_log' = << >>
                 /\ last_op' = [op |-> "transcribe", filename |-> filename,
                                checks |-> checks, status |-> "pending",
                                task_id |-> task_id]
                 /\ UNCHANGED <<max_retries, stem, app_task_manager, interrupter, stopper, completed_tasks,
                                processing_task, processing_active,
                                stop_processing, current_process, stats, pc,
                                cur, delay, in_progress, result_file,
                                interrupted>>
            ELSE /\ status_cache' = reply.status_cache
                 /\ last_op' = [op |-> "transcribe", filename |-> filename,
                                checks |-> checks, status |-> reply.status,
                                task_id |-> IF reply.status = "processing"
                                            THEN get_task_info(filename, active_tasks, completed_tasks)
                                            ELSE NoTask]
                 /\ UNCHANGED <<tasks, now, max_retries, stem, app_task_manager, interrupter, stopper, task_queue,
                                active_tasks, completed_tasks,
                                processing_task, processing_active,
                                stop_processing, current_process, stats, pc,
                                cur, delay, in_progress, result_file,
                                attempts, deq_log, purged, interrupted>>

\* ------------------------------------------------------ the start-up scan
\* What iterdir() may give: the non-sample audio files that are in the
\* shared directory, in the order the directory gives them.
Listings ==
    {files \in UNION {[1..n -> Keys] : n \in 0..NumKeys} :
        \A i, j \in DOMAIN files : i # j => files[i] # files[j]}

\* The part of the state the scan reads and writes, as one record.
ScanState ==
    [tasks |-> tasks, task_queue |-> task_queue,
     active_tasks |-> active_tasks, attempts |-> attempts,
     status_cache |-> status_cache, purged |-> purged]

\* The condition of scan_existing_files for handing a file to
\* handle_new_file.
NeedsProcessing(status) == status \in {"not_found", "error"}

\* The body of the for loop of scan_existing_files over the files that are
\* left: the status of the file is resolved (the file is there, iterdir
\* listed it), and handle_new_file(name, auto_scan=True) adds a task of
\* AUTO_SCAN priority when the status is None or ERROR. t is the reading of
\* the clock during the scan.
RECURSIVE scan_files(_, _, _)
scan_files(files, s, t) ==
    IF files = << >>
    THEN s
    ELSE LET filename == Head(files)
             reply == get_file_status(filename, TRUE, s.status_cache,
                                      in_progress, result_file,
                                      s.active_tasks, completed_tasks)
             task_id == Len(s.tasks) + 1
             s1 == [s EXCEPT !.status_cache = reply.status_cache]
             s2 == IF NeedsProcessing(reply.status)
                   THEN [s1 EXCEPT
                           !.tasks = Append(@, NewTask(task_id, filename,
                                                       AUTO_SCAN, NoRequest,
                                                       t)),
                           !.task_queue = @ \cup {task_id},
                           !.active_tasks = Put(remove_task(@, filename),
                                                filename, task_id),
                           !.attempts = Append(@, 0),
                           !.purged = @ \ {filename}]
                   ELSE s1
         IN scan_files(Tail(files), s2, t)

\* start_monitoring -> scan_existing_files(), once, when the service starts:
\* nothing was submitted yet.
ScanExistingFiles(files, t) ==
    /\ tasks = << >>
    /\ last_op = NoOp
    /\ QueueLockFree
    /\ LET s == scan_files(files, ScanState, t)
       IN /\ tasks' = s.tasks
          /\ task_queue' = s.task_queue
          /\ active_tasks' = s.active_tasks
          /\ attempts' = s.attempts
          /\ status_cache' = s.status_cache
          /\ purged' = s.purged
    /\ now' = t
    /\ deq_log' = << >>
    /\ last_op' = [op |-> "scan", files |-> {files[i] : i \in DOMAIN files}]
    /\ UNCHANGED <<max_retries, stem, app_task_manager, interrupter, stopper, completed_tasks, processing_task,
                   processing_active, stop_processing, current_process, stats,
                   pc, cur, delay, in_progress, result_file, interrupted>>

Next ==
    \/ \E k \in CallKeys, c \in Submissions, t \in ClockReadings :
          AddTask(k, c[1], c[2], t)
    \/ \E k \in CallKeys : DeleteTranscription(k)
    \/ \E l \in Loops : StartProcessing(l)
    \/ \E l \in Loops : WakeEmpty(l)
    \/ \E l \in Loops : EngineSuccess(l)
    \/ \E l \in Loops : EngineFailure(l)
    \/ \E l \in Loops : BackoffDone(l)
    \/ Stop

\* The scheduler: clients submit and delete while the processing loop runs.
Spec == Init /\ [][Next]_vars

NextQueue ==
    \/ \E k \in CallKeys, auto_scan \in BOOLEAN, t \in ClockReadings :
          HandleNewFile(k, auto_scan, t)
    \/ \E k \in CallKeys : DeleteTranscription(k)
    \/ \E l \in Loops : StartProcessing(l)
    \/ \E l \in Loops : WakeEmpty(l)
    \/ \E l \in Loops : EngineSuccess(l)

\* The queue under more submissions: the files come from the directory
\* watcher (with API priority) and the scan (with AUTO_SCAN priority), the
\* engine transcribes every file, the configuration is the default one and
\* nobody stops the loop.
InitQueue == Init /\ max_retries = DefaultMaxRetries
SpecQueue == InitQueue /\ [][NextQueue]_vars

NextLoop ==
    \/ \E k \in CallKeys, c \in Submissions, t \in ClockReadings :
          AddTask(k, c[1], c[2], t)
    \/ \E l \in Loops : StartProcessing(l)
    \/ \E l \in Loops : WakeEmpty(l)
    \/ \E l \in Loops : EngineSuccess(l)
    \/ \E l \in Loops : EngineFailure(l)
    \/ \E l \in Loops : BackoffDone(l)
    \/ Stop

\* The scheduler when no client deletes: whatever leaves the queue was
\* taken out by the loop.
SpecLoop == Init /\ [][NextLoop]_vars

NextStop ==
    \/ \E k \in CallKeys, t \in ClockReadings : SubmitFile(k, t)
    \/ \E l \in Loops : StartProcessing(l)
    \/ \E l \in Loops : WakeEmpty(l)
    \/ \E l \in Loops : EngineSuccess(l)
    \/ \E l \in Loops : EngineFailure(l)
    \/ \E l \in Loops : BackoffDone(l)
    \/ StopCall
    \/ StopPoll

\* stop() followed to its return, beside the loop it stops.
SpecStop == Init /\ [][NextStop]_vars

\* The in-progress artifacts an earlier run of the service may have left in
\* the shared directory: none, one written by update_status_file, or one
\* without a status field.
LeftInProgress ==
    {NoArtifact,
     StatusData("processing", NoTask, 0, "none", -1),
     StatusData("error", NoTask, -1, "error", 1),
     StatusData("none", NoTask, 0, "none", -1)}

\* ... and the result artifacts.
LeftResult ==
    {NoArtifact,
     [exists |-> TRUE, result |-> [filename |-> 0, request |-> NoRequest]]}

\* The managers are constructed over a shared directory that holds what an
\* earlier run left; the cache starts empty.
InitStatus ==
    /\ tasks = << >>
    /\ now = 0
    /\ max_retries = 1
    /\ stem = DistinctStems
    /\ task_queue = {}
    /\ active_tasks = << >>
    /\ completed_tasks = << >>
    /\ processing_task = NoTask
    /\ processing_active = FALSE
    /\ stop_processing = FALSE
    /\ current_process = FALSE
    /\ stats = [total_processed |-> 0, total_errors |-> 0,
                avg_processing_time |-> Float(0, 1)]
    /\ pc = [l \in Loops |-> "idle"]
    /\ cur = [l \in Loops |-> NoTask]
    /\ delay = [l \in Loops |-> 0]
    /\ stopper = NoStop
    /\ interrupter = NoInterrupt
    /\ app_task_manager = NoManager
    /\ in_progress \in [Keys -> LeftInProgress]
    /\ result_file \in [Keys -> LeftResult]
    /\ status_cache = << >>
    /\ attempts = << >>
    /\ deq_log = << >>
    /\ last_op = NoOp
    /\ purged = {}
    /\ interrupted = {}

NextStatus ==
    \/ \E k \in CallKeys, t \in ClockReadings : SubmitFile(k, t)
    \/ \E k \in Keys : DeleteTranscription(k)
    \/ \E k \in Keys, file_exists \in BOOLEAN : StatusQuery(k, file_exists)
    \/ \E l \in Loops : StartProcessing(l)
    \/ \E l \in Loops : WakeEmpty(l)
    \/ \E l \in Loops : EngineSuccess(l)
    \/ \E l \in Loops : EngineFailure(l)

\* The status query against the scheduler and the shared directory.
SpecStatus == InitStatus /\ [][NextStatus]_vars

\* A fresh shared directory in which two filenames share a stem.
InitStem ==
    /\ tasks = << >>
    /\ now = 0
    /\ max_retries = 1
    /\ stem = SharedStems
    /\ task_queue = {}
    /\ active_tasks = << >>
    /\ completed_tasks = << >>
    /\ processing_task = NoTask
    /\ processing_active = FALSE
    /\ stop_processing = FALSE
    /\ current_process = FALSE
    /\ stats = [total_processed |-> 0, total_errors |-> 0,
                avg_processing_time |-> Float(0, 1)]
    /\ pc = [l \in Loops |-> "idle"]
    /\ cur = [l \in Loops |-> NoTask]
    /\ delay = [l \in Loops |-> 0]
    /\ stopper = NoStop
    /\ interrupter = NoInterrupt
    /\ app_task_manager = NoManager
    /\ in_progress = [k \in Keys |-> NoArtifact]
    /\ result_file = [k \in Keys |-> NoArtifact]
    /\ status_cache = << >>
    /\ attempts = << >>
    /\ deq_log = << >>
    /\ last_op = NoOp
    /\ purged = {}
    /\ interrupted = {}

\* The status query and the deletion when artifacts are shared.
SpecStem == InitStem /\ [][NextStatus]_vars

\* handle_new_file for the files that are interrupted.
SubmitForInterrupt(filename, t) ==
    /\ Len(tasks) < MaxInterruptJobs
    /\ add_task(filename, AUTO_SCAN, NoRequest, t)

InitInterrupt == Init /\ max_retries = 1

NextInterrupt ==
    \/ \E k \in CallKeys, t \in ClockReadings : SubmitForInterrupt(k, t)
    \/ \E l \in Loops : StartProcessing(l)
    \/ \E l \in Loops : WakeEmpty(l)
    \/ \E l \in Loops : EngineSuccess(l)
    \/ \E l \in Loops : EngineFailure(l)
    \/ \E l \in Loops : RegisterProcess(l)
    \/ ProcessExits
    \/ \E k \in CallKeys : InterruptCall(k)
    \/ InterruptWake

\* interrupt_processing called beside the loop, with process handles that a
\* caller registers for the engine calls; every failure is final.
SpecInterrupt == InitInterrupt /\ [][NextInterrupt]_vars

InitApp == Init /\ max_retries = DefaultMaxRetries

NextApp ==
    \/ Lifespan
    \/ AppWakeEmpty
    \/ /\ app_task_manager.constructed
       /\ \E k \in CallKeys, c \in Submissions, t \in ClockReadings :
             AddTask(k, c[1], c[2], t)
    \/ /\ app_task_manager.constructed
       /\ \E k \in CallKeys : DeleteTranscription(k)

\* The application (requests are served once the start-up is over): the lifespan starts the loop of its TaskManager, and
\* the HTTP routes, the directory watcher and the scan submit and delete
\* through get_task_manager(). The event loop runs every task that is ready.
SpecApp ==
    InitApp /\ [][NextApp]_vars /\ WF_vars(Lifespan) /\ WF_vars(AppWakeEmpty)

InitHttp == Init /\ max_retries = 1

NextHttp ==
    \/ \E k \in Keys, r \in CallRequests, checks \in ExistenceChecks,
          t \in ClockReadings : TranscribeAudio(k, r, checks, t)
    \/ \E k \in Keys : DeleteTranscription(k)
    \/ \E l \in Loops : StartProcessing(l)
    \/ \E l \in Loops : WakeEmpty(l)
    \/ \E l \in Loops : EngineSuccess(l)
    \/ \E l \in Loops : EngineFailure(l)

\* POST /transcribe against the scheduler over a fresh shared directory: the
\* loop brings the files to every status the matrix tells apart.
SpecHttp == InitHttp /\ [][NextHttp]_vars

NextScan ==
    \E files \in Listings, t \in ClockReadings : ScanExistingFiles(files, t)

\* The service starts over a shared directory that holds what an earlier
\* run left, and scans it.
SpecScan == InitStatus /\ [][NextScan]_vars

InitLive == Init /\ max_retries = 2

NextLive ==
    \/ \E k \in CallKeys, c \in Submissions, t \in ClockReadings :
          AddTask(k, c[1], c[2], t)
    \/ \E l \in Loops : StartProcessing(l)
    \/ \E l \in Loops : WakeEmpty(l)
    \/ \E l \in Loops : EngineSuccess(l)
    \/ \E l \in Loops : EngineFailure(l)
    \/ \E l \in Loops : BackoffDone(l)

\* The scheduler left to run: clients submit (finitely often) and nobody
\* deletes or stops; start_processing is called, every sleep of the loop
\* ends, and every engine call returns or raises (the adapter bounds it by
\* its timeout).
SpecLive ==
    /\ InitLive
    /\ [][NextLive]_vars
    /\ WF_vars(\E l \in Loops : StartProcessing(l))
    /\ WF_vars(\E l \in Loops : WakeEmpty(l))
    /\ WF_vars(\E l \in Loops : EngineFailure(l) \/ EngineSuccess(l))
    /\ WF_vars(\E l \in Loops : BackoffDone(l))

InitShutdown == Init /\ max_retries = 1

NextShutdown ==
    \/ CreateLoopTask
    \/ \E l \in Loops : LoopFirstStep(l)
    \/ \E k \in CallKeys, t \in ClockReadings : SubmitFile(k, t)
    \/ \E l \in Loops : WakeEmpty(l)
    \/ \E l \in Loops : EngineSuccess(l)
    \/ \E l \in Loops : EngineFailure(l)
    \/ /\ stopper = NoStop
       /\ \E l \in Loops : pc[l] # "idle"
       /\ StopCall
    \/ StopPoll

\* The lifespan of one TaskManager: the loop task is created at start-up,
\* and stop() is called once at shutdown, in any interleaving with the
\* task's steps. The event loop runs every task that can run: the created
\* task gets its first step, every sleep ends, every engine call returns or
\* raises.
SpecShutdown ==
    /\ InitShutdown
    /\ [][NextShutdown]_vars
    /\ WF_vars(\E l \in Loops : LoopFirstStep(l))
    /\ WF_vars(\E l \in Loops : WakeEmpty(l))
    /\ WF_vars(\E l \in Loops : EngineFailure(l) \/ EngineSuccess(l))
    /\ WF_vars(StopPoll)

\* ================================================================ properties
ProcessingJobs == {t \in DOMAIN tasks : tasks[t].status = "processing"}
RunningLoops == {l \in Loops : pc[l] # "idle"}
InEngine(t) == \E l \in Loops : pc[l] = "engine" /\ cur[l] = t
InBackoff(t) == \E l \in Loops : pc[l] = "backoff" /\ cur[l] = t

\* The order of the specification: a precedes b when it has the smaller
\* priority number, or the same one and the earlier created_at.
Precedes(a, b) ==
    \/ a.priority < b.priority
    \/ a.priority = b.priority /\ a.created_at < b.created_at

\* Jobs A(API, t=0), B(AUTO_SCAN, t=1), C(API, t=2) of three different
\* filenames are the tasks 1, 2, 3 and no other task was created.
ScenarioABC ==
    /\ Len(tasks) = 3
    /\ Cardinality({tasks[i].filename : i \in 1..3}) = 3
    /\ tasks[1].priority = API /\ tasks[1].created_at = 0
    /\ tasks[2].priority = AUTO_SCAN /\ tasks[2].created_at = 1
    /\ tasks[3].priority = API /\ tasks[3].created_at = 2

\* C1: at most one Job has status PROCESSING, the one the single loop is
\* driving through the engine adapter, and at most one call of
\* start_processing is running as a loop, whatever the clients call.
C1_SingleActiveJob ==
    /\ Cardinality(ProcessingJobs) <= 1
    /\ Cardinality(RunningLoops) <= 1
    /\ \A t \in ProcessingJobs : InEngine(t)
    /\ Cardinality({l \in Loops : pc[l] = "engine"}) <= 1

\* C1 witness: start_processing has just been called while the loop was
\* driving a Job and another Job was waiting, and it started nothing.
C1_Witness ==
    /\ last_op = [op |-> "start_processing", started |-> FALSE]
    /\ ProcessingJobs # {}
    /\ \E k \in DOMAIN active_tasks : tasks[active_tasks[k]].status = "pending"

\* The Jobs of filename k that are live: a call of dequeue_highest can return
\* them, or they wait in the retry backoff, or they are being processed.
LiveJobs(k) ==
    {t \in DOMAIN tasks :
        /\ tasks[t].filename = k
        /\ \/ t \in ValidTasks(task_queue, active_tasks, tasks)
           \/ InBackoff(t)
           \/ InEngine(t)}

\* C2: every filename has at most one live Job.
C2_OneLiveJobPerKey == \A k \in Keys : Cardinality(LiveJobs(k)) <= 1

\* C3: every call of dequeue_highest returned a valid Job that no valid Job
\* preceded in (priority, created_at) order; and three successive calls on
\* the Jobs A(API, 0), B(AUTO_SCAN, 1), C(API, 2) returned A, then C, then B.
C3_DequeueOrder ==
    /\ \A i \in DOMAIN deq_log :
          /\ deq_log[i].ret \in deq_log[i].valid
          /\ \A v \in deq_log[i].valid :
                ~Precedes(tasks[v], tasks[deq_log[i].ret])
    /\ (ScenarioABC /\ Len(deq_log) = 3 /\ deq_log[1].valid = {1, 2, 3})
          => <<deq_log[1].ret, deq_log[2].ret, deq_log[3].ret>> = <<1, 3, 2>>

\* C3 witness: A, B, C were all valid at the first of three successive
\* calls, and the third call has returned.
C3_Witness ==
    /\ ScenarioABC
    /\ Len(deq_log) = 3
    /\ deq_log[1].valid = {1, 2, 3}
    /\ deq_log[3].ret = 2

\* C4: dequeue_highest never returned a stale Job: the Job it returned was,
\* at the call, the Job registered for its filename.
C4_NoStaleJobReturned ==
    \A i \in DOMAIN deq_log : deq_log[i].registered = deq_log[i].ret

\* The Jobs of filename k that the scheduler holds: the registered one, those
\* a dequeue can return and the one in the hands of the loop.
JobsHeld(k) ==
    LiveJobs(k) \cup
    {t \in DOMAIN tasks : k \in DOMAIN active_tasks /\ active_tasks[k] = t}

\* C5: a submit of a filename whose earlier submission is still registered
\* leaves exactly one Job for it: a fresh one (new id, PENDING, retry_count
\* 0) with the parameters of this submit; the earlier Job is discarded.
C5_DedupOnSubmit ==
    [][\A k \in Keys, p \in Priorities, r \in Requests \cup {NoRequest},
          t \in 0..MaxTime :
          (/\ Len(tasks') = Len(tasks) + 1
           /\ k \in DOMAIN active_tasks
           /\ AddTask(k, p, r, t))
             => LET new == Len(tasks') IN
                  /\ new \notin DOMAIN tasks
                  /\ active_tasks'[k] = new
                  /\ tasks'[new].status = "pending"
                  /\ tasks'[new].retry_count = 0
                  /\ tasks'[new].transcribe_request = r
                  /\ JobsHeld(k)' = {new}]_vars

\* C6: with max_retries = N >= 1 no Job is handed to the engine more than N
\* times, a Job in terminal ERROR was handed to it exactly N times, and a Job
\* that has failed N times is in terminal ERROR.
C6_RetryCap ==
    max_retries >= 1 =>
        \A t \in DOMAIN tasks :
            /\ attempts[t] <= max_retries
            /\ tasks[t].status = "error" => attempts[t] = max_retries
            /\ tasks[t].retry_count >= max_retries
                  => tasks[t].status = "error"

\* C6 witness: with max_retries = 3 a Job has failed three times and is in
\* terminal ERROR.
C6_Witness ==
    /\ max_retries = 3
    /\ \E t \in DOMAIN tasks :
          /\ tasks[t].status = "error"
          /\ attempts[t] = 3
          /\ tasks[t].retry_count = 3

\* C7: while a failed Job waits to be re-enqueued, the delay slept is 2 to
\* the power of its retry_count, which counts the failed attempts so far:
\* 2 after the first failure, 4 after the second.
C7_BackoffDelay ==
    \A l \in Loops :
        pc[l] = "backoff" =>
            /\ tasks[cur[l]].retry_count = attempts[cur[l]]
            /\ attempts[cur[l]] = 1 => delay[l] = 2
            /\ attempts[cur[l]] = 2 => delay[l] = 4
            /\ attempts[cur[l]] = 3 => delay[l] = 8
            /\ delay[l] = 2 ^ tasks[cur[l]].retry_count

\* C7 witness: a Job has failed twice and the loop sleeps 4 before it puts
\* the Job back.
C7_Witness ==
    \E l \in Loops :
        pc[l] = "backoff" /\ attempts[cur[l]] = 2 /\ delay[l] = 4

\* C8: a Job whose filename was deleted while it was processing never
\* reaches COMPLETED, and a filename deleted that way has neither an
\* in-progress nor a result artifact until it is submitted again.
C8_DeletionInterrupt ==
    /\ \A t \in interrupted : tasks[t].status # "completed"
    /\ \A k \in purged :
          ~in_progress[k].exists /\ ~result_file[k].exists

\* The filenames get_queue_info counts as processing.
CountedProcessing(active, ts) ==
    {f \in DOMAIN active : ts[active[f]].status = "processing"}

\* C9: at the end of a deletion of filename k, position_of(k) is None and
\* queue_snapshot counts k neither as pending nor as processing; the two
\* counts have dropped by the Job the registry held for k, and by nothing
\* else.
C9_DeleteIsImmediate ==
    [][\A k \in Keys :
          (/\ tasks' = tasks
           /\ pc' = pc
           /\ stop_processing' = stop_processing
           /\ DeleteTranscription(k)) =>
             LET before == get_queue_info(active_tasks, tasks, stats)
                 after == get_queue_info(active_tasks', tasks', stats')
             IN /\ get_queue_position(k, active_tasks', tasks') = NoPosition
                /\ k \notin after.tasks
                /\ k \notin CountedProcessing(active_tasks', tasks')
                /\ after.tasks = before.tasks \ {k}
                /\ after.length = Cardinality(before.tasks \ {k})
                /\ after.processing
                      = Cardinality(CountedProcessing(active_tasks, tasks)
                                       \ {k})]_vars

\* C9 witness: a filename was deleted while its Job was in flight; the
\* engine is still running that Job and the registry no longer knows it.
C9_Witness ==
    \E k \in purged, l \in Loops :
        /\ pc[l] = "engine"
        /\ tasks[cur[l]].filename = k
        /\ cur[l] \in interrupted
        /\ k \notin DOMAIN active_tasks
        /\ get_queue_position(k, active_tasks, tasks) = NoPosition

\* The rank of the specification: 1 + the number of other registered PENDING
\* Jobs that precede the Job of k; None unless k is registered and PENDING.
Rank(k) ==
    IF k \in DOMAIN active_tasks /\ tasks[active_tasks[k]].status = "pending"
    THEN 1 + Cardinality(
               {j \in (DOMAIN active_tasks) \ {k} :
                   /\ tasks[active_tasks[j]].status = "pending"
                   /\ Precedes(tasks[active_tasks[j]],
                               tasks[active_tasks[k]])})
    ELSE NoPosition

\* C10: position_of(k) is the rank of k among the registered PENDING Jobs,
\* and None for a filename that is not registered or whose Job is not
\* PENDING; with A(API, 0), B(AUTO_SCAN, 1), C(API, 2) all waiting,
\* position_of(C) = 2.
C10_Position ==
    /\ \A k \in Keys : get_queue_position(k, active_tasks, tasks) = Rank(k)
    /\ (/\ ScenarioABC
        /\ \A i \in 1..3 :
              /\ tasks[i].filename \in DOMAIN active_tasks
              /\ active_tasks[tasks[i].filename] = i
              /\ tasks[i].status = "pending")
          => get_queue_position(tasks[3].filename, active_tasks, tasks) = 2

\* C10 witness: A, B and C all wait and C is second.
C10_Witness ==
    /\ ScenarioABC
    /\ \A i \in 1..3 :
          /\ tasks[i].filename \in DOMAIN active_tasks
          /\ active_tasks[tasks[i].filename] = i
          /\ tasks[i].status = "pending"
    /\ get_queue_position(tasks[3].filename, active_tasks, tasks) = 2

\* A further case of C10: a registered Job that is being processed has no
\* position, and the PENDING Job it would precede is first.
C10_WitnessNotPending ==
    \E k \in DOMAIN active_tasks :
        /\ tasks[active_tasks[k]].status = "processing"
        /\ get_queue_position(k, active_tasks, tasks) = NoPosition
        /\ \E j \in DOMAIN active_tasks :
              /\ tasks[active_tasks[j]].status = "pending"
              /\ Precedes(tasks[active_tasks[k]], tasks[active_tasks[j]])
              /\ get_queue_position(j, active_tasks, tasks) = 1
\* The status the precedence of the specification resolves for filename k
\* when the source directory answers file_exists.
Resolved(k, file_exists) ==
    IF k \in DOMAIN status_cache /\ status_cache[k].status # "none"
    THEN status_cache[k].status
    ELSE IF in_progress[k].exists
    THEN (IF in_progress[k].status # "none"
          THEN in_progress[k].status ELSE "processing")
    ELSE IF result_file[k].exists
    THEN "completed"
    ELSE IF k \in (DOMAIN active_tasks) \cup (DOMAIN completed_tasks)
    THEN "pending"
    ELSE IF file_exists THEN "pending" ELSE "not_found"

\* C11: every status query returns the status resolved by the precedence
\* cache entry, in-progress artifact (PROCESSING without a status field),
\* result artifact, key known to the scheduler, source file, NOT_FOUND; with
\* both artifacts present and nothing cached it returns the in-progress
\* artifact's status.
C11_StatusPrecedence ==
    [][\A k \in Keys, e \in BOOLEAN :
          (/\ tasks' = tasks
           /\ pc' = pc
           /\ StatusQuery(k, e))
             => /\ last_op'.status = Resolved(k, e)
                /\ (/\ k \notin DOMAIN status_cache
                    /\ in_progress[k].exists
                    /\ result_file[k].exists
                    /\ in_progress[k].status # "none")
                      => last_op'.status = in_progress[k].status]_vars

\* C11 witness: no task was ever submitted, both artifacts of a filename
\* were left by an earlier run, and the query has just returned the error
\* status of the in-progress artifact.
C11_Witness ==
    /\ tasks = << >>
    /\ last_op.op = "get_file_status"
    /\ in_progress[last_op.filename].exists
    /\ result_file[last_op.filename].exists
    /\ in_progress[last_op.filename].status = "error"
    /\ last_op.status = "error"

\* The status a query for filename k returns in this state.
StatusOf(k, file_exists) ==
    get_file_status(k, file_exists, status_cache, in_progress, result_file,
                    active_tasks, completed_tasks).status

\* C12: a filename with neither artifact that the registry does not hold has
\* status PENDING when its source file exists and NOT_FOUND when it is
\* absent; so it has after a deletion that purged its source and artifacts,
\* whatever its Job had reached.
C12_StatusWithoutArtifacts ==
    \A k \in Keys :
        (/\ ~in_progress[k].exists
         /\ ~result_file[k].exists
         /\ k \notin DOMAIN active_tasks)
          => /\ StatusOf(k, TRUE) = "pending"
             /\ StatusOf(k, FALSE) = "not_found"
\* The status changes of a Job that the state machine allows.
AllowedStatusChanges ==
    {<<"pending", "processing">>, <<"processing", "completed">>,
     <<"processing", "pending">>, <<"processing", "error">>}

\* C13: the status of a Job changes only along PENDING -> PROCESSING,
\* PROCESSING -> COMPLETED, PROCESSING -> PENDING and PROCESSING -> ERROR; a
\* Job that is COMPLETED or ERROR keeps its status, is not handed to the
\* engine again and is not in the hands of the loop.
C13_StateMachine ==
    [][\A t \in DOMAIN tasks :
          /\ tasks'[t].status # tasks[t].status
                => <<tasks[t].status, tasks'[t].status>>
                      \in AllowedStatusChanges
          /\ tasks[t].status \in {"completed", "error"}
                => /\ tasks'[t].status = tasks[t].status
                   /\ attempts'[t] = attempts[t]
                   /\ t \notin task_queue'
                   /\ \A l \in Loops : cur'[l] # t]_vars

\* C13 witness: a Job has failed once, was retried and is COMPLETED, and
\* the loop is still running.
C13_Witness ==
    /\ \E t \in DOMAIN tasks :
          /\ tasks[t].status = "completed"
          /\ tasks[t].retry_count = 1
          /\ attempts[t] = 2
    /\ RunningLoops # {}

\* C14: when the engine returns a result for the Job the loop holds, the
\* result artifact of its filename is written, the Job is COMPLETED with
\* completed_at set, it is no longer the registered Job of its filename and
\* is in the completed-history map, total_processed is one more, and the
\* Job is neither put back into the queue nor handed to the engine again.
C14_SuccessPath ==
    [][\A l \in Loops :
          (/\ pc[l] = "engine"
           /\ now' = now
           /\ stop_processing' = stop_processing
           /\ EngineSuccess(l))
             => LET t == cur[l]
                    k == tasks[t].filename
                IN /\ result_file'[k].exists
                   /\ result_file'[k].result.filename = k
                   /\ result_file'[k].result.request
                         = tasks[t].transcribe_request
                   /\ tasks'[t].status = "completed"
                   /\ tasks'[t].completed_at = now
                   /\ tasks'[t].completed_at # NoTime
                   /\ k \notin DOMAIN active_tasks'
                   /\ k \in DOMAIN completed_tasks'
                   /\ completed_tasks'[k] = t
                   /\ stats'.total_processed = stats.total_processed + 1
                   /\ stats'.total_errors = stats.total_errors
                   /\ t \notin task_queue'
                   /\ attempts'[t] = attempts[t]
                   /\ cur'[l] # t]_vars

\* C14 witness: a Job is COMPLETED at its first attempt, its result artifact
\* holds its request, it is in the completed-history map and it was counted.
C14_Witness ==
    \E t \in DOMAIN tasks :
        /\ tasks[t].status = "completed"
        /\ attempts[t] = 1
        /\ result_file[tasks[t].filename].exists
        /\ result_file[tasks[t].filename].result.request
              = tasks[t].transcribe_request
        /\ tasks[t].filename \in DOMAIN completed_tasks
        /\ completed_tasks[tasks[t].filename] = t
        /\ tasks[t].filename \notin DOMAIN active_tasks
        /\ stats.total_processed = 1

\* C15: when the engine fails and the retries of the Job are exhausted, the
\* Job is ERROR, the in-progress artifact of its filename holds status
\* error, the error message and the final retry_count, the Job has moved
\* from the registry to the completed-history map, total_errors is one
\* more, and a status query for the filename returns ERROR.
C15_TerminalFailure ==
    [][\A l \in Loops :
          (/\ pc[l] = "engine"
           /\ now' = now
           /\ stop_processing' = stop_processing
           /\ ~CanRetry(tasks[cur[l]].retry_count + 1, max_retries)
           /\ EngineFailure(l))
             => LET t == cur[l]
                    k == tasks[t].filename
                IN /\ tasks'[t].status = "error"
                   /\ tasks'[t].retry_count = tasks[t].retry_count + 1
                   /\ in_progress'[k].exists
                   /\ in_progress'[k].status = "error"
                   /\ in_progress'[k].error = tasks'[t].error_message
                   /\ in_progress'[k].error # "none"
                   /\ in_progress'[k].retry_count = tasks'[t].retry_count
                   /\ k \notin DOMAIN active_tasks'
                   /\ k \in DOMAIN completed_tasks'
                   /\ completed_tasks'[k] = t
                   /\ stats'.total_errors = stats.total_errors + 1
                   /\ stats'.total_processed = stats.total_processed
                   /\ t \notin task_queue'
                   /\ \A e \in BOOLEAN :
                         get_file_status(k, e, status_cache', in_progress',
                                         result_file', active_tasks',
                                         completed_tasks').status
                            = "error"]_vars

\* C15 witness: a Job has exhausted three attempts and is ERROR, the
\* artifact records the error and retry_count 3, and the status query
\* returns ERROR.
C15_Witness ==
    \E t \in DOMAIN tasks :
        /\ tasks[t].status = "error"
        /\ tasks[t].retry_count = 3
        /\ in_progress[tasks[t].filename].exists
        /\ in_progress[tasks[t].filename].status = "error"
        /\ in_progress[tasks[t].filename].retry_count = 3
        /\ completed_tasks[tasks[t].filename] = t
        /\ stats.total_errors >= 1
        /\ StatusOf(tasks[t].filename, FALSE) = "error"
\* The Jobs the loop holds (in the engine or in the retry backoff).
HeldByLoop == {cur[l] : l \in Loops} \ {NoTask}

\* The Jobs that no later submission of their filename has replaced.
Unreplaced ==
    {t \in DOMAIN tasks :
        \A u \in DOMAIN tasks : tasks[u].filename = tasks[t].filename => u <= t}

\* C16: the loop has ended only after a stop command (once a Job was handed
\* to the engine, the loop is inactive only with the stop flag set); and,
\* no client deleting, every Job that was not replaced, has left the queue
\* and is not in the hands of the loop was handed to the engine: no Job
\* queued behind a failing Job is dropped unprocessed.
C16_LoopResilience ==
    /\ ((\E t \in DOMAIN tasks : attempts[t] >= 1) /\ ~processing_active)
          => stop_processing
    /\ (\E u \in DOMAIN tasks : tasks[u].retry_count >= 1)
          => \A t \in Unreplaced :
                (t \notin task_queue /\ t \notin HeldByLoop)
                   => attempts[t] >= 1
\* The polls stop() has slept through.
StopPolls == StopTimeout - stopper.timeout

\* C17: stop() returns only when the loop is inactive or when it has slept
\* through 30 polls; it reports a failure to stop exactly when the loop is
\* still active at its return; and it never polls more than 30 times.
C17_StopWaits ==
    [][/\ (stopper.report = "none" /\ stopper'.report # "none")
            => /\ ~processing_active' \/ stopper'.timeout = 0
               /\ processing_active'
                     <=> stopper'.report = "not_graceful"
               /\ ~processing_active' <=> stopper'.report = "stopped"
       /\ stopper'.timeout \in 0..StopTimeout
       /\ (stopper.pc = "polling" /\ stopper'.pc = "polling")
            => stopper'.timeout \in {stopper.timeout, stopper.timeout - 1}
      ]_vars

\* C17 witness: stop() has returned after 30 polls with the loop still
\* active (a Job is in the engine) and has reported that.
C17_Witness ==
    /\ stopper.pc = "idle"
    /\ stopper.report = "not_graceful"
    /\ StopPolls = 30
    /\ processing_active
    /\ \E l \in Loops : pc[l] = "engine"
\* C18: a Job that is in the engine when stop() is called is interrupted: once
\* the stop flag is set, the engine invocation of the Job the loop holds
\* does not run to completion.
C18_StopInterruptsJob ==
    [][\A l \in Loops :
          (pc[l] = "engine" /\ stop_processing)
             => tasks'[cur[l]].status # "completed"]_vars
C19_WitnessSleep ==
    /\ \E l \in Loops : pc[l] = "sleep_empty"
    /\ \A k \in Keys : ENABLED DeleteTranscription(k)

C19_WitnessEngine ==
    /\ \E l \in Loops : pc[l] = "engine"
    /\ \A k \in Keys : ENABLED add_task(k, API, NoRequest, now)
\* C20: the estimated wait of a PENDING Job is (position - 1) times the
\* average processing time, which is the fallback of 60 seconds as long as
\* no successful completion has been recorded and the running mean
\* afterwards; the estimate is None for a Job that is not PENDING.
C20_EstimatedWait ==
    \A t \in DOMAIN tasks :
       LET estimate == get_estimated_wait_time(t, active_tasks, tasks, stats)
           position == get_queue_position(tasks[t].filename, active_tasks,
                                          tasks)
           avg == IF stats.total_processed = 0
                  THEN Float(DefaultAvgTime, 1)
                  ELSE stats.avg_processing_time
       IN /\ tasks[t].status # "pending" => estimate = NoFloat
          /\ (tasks[t].status = "pending" /\ estimate # NoFloat)
                => estimate = FloatMul(Float(position - 1, 1), avg)

\* C21: timestamps follow the status in every reachable state: a PENDING Job
\* (fresh or reset for a retry) has neither started_at nor completed_at, a
\* PROCESSING Job has started_at and no completed_at, a COMPLETED or ERROR
\* Job has completed_at.
C21_TimestampsFollowStatus ==
    \A t \in DOMAIN tasks :
       /\ tasks[t].status = "pending"
             => tasks[t].started_at = NoTime /\ tasks[t].completed_at = NoTime
       /\ tasks[t].status = "processing"
             => tasks[t].started_at # NoTime /\ tasks[t].completed_at = NoTime
       /\ tasks[t].status \in {"completed", "error"}
             => tasks[t].completed_at # NoTime

C21_Witness ==
    \E t, u \in DOMAIN tasks :
       /\ tasks[t].status = "pending" /\ tasks[t].retry_count >= 1
       /\ attempts[t] >= 1 /\ tasks[t].started_at = NoTime
       /\ tasks[u].status = "error" /\ tasks[u].completed_at # NoTime

\* The status the artifacts on disk yield for filename k; "none" when it has
\* no artifact.
ArtifactStatus(k) ==
    IF in_progress[stem[k]].exists
    THEN (IF HasStatus(in_progress[stem[k]])
          THEN in_progress[stem[k]].status ELSE "processing")
    ELSE IF result_file[stem[k]].exists
    THEN "completed"
    ELSE "none"

\* C22: cache coherence: in every reachable state a cached status equals the
\* status the artifacts on disk yield, for every key, two keys whose
\* filenames share a stem included; so after a purge no cache entry reports
\* the status of deleted artifacts.
C22_CacheCoherence ==
    \A k \in Keys :
       (k \in DOMAIN status_cache /\ HasStatus(status_cache[k]))
          => status_cache[k].status = ArtifactStatus(k)

\* The stems whose artifacts a step creates, modifies or removes.
TouchedStems ==
    {s \in Keys : in_progress'[s] # in_progress[s]
                     \/ result_file'[s] # result_file[s]}

\* C23: artifact ownership: a step creates or modifies an artifact only as
\* the loop's processing of a Job it holds before or after the step (of that
\* artifact's stem: one stretch of the loop may finish a Job and start the
\* next), and removes one only as a deletion; a status query, a submission
\* and a removal from the registry leave every artifact as it is.
C23_ArtifactOwnership ==
    [][/\ \A s \in TouchedStems :
             \/ \E l \in Loops :
                   /\ <<pc[l], cur[l]>> # <<pc'[l], cur'[l]>>
                   /\ \E t \in {cur[l], cur'[l]} \ {NoTask} :
                         /\ stem[tasks[t].filename] = s
                         /\ in_progress'[s].exists
                         /\ in_progress'[s].task_id = t
                         /\ result_file[s].exists => result_file'[s].exists
             \/ /\ pc' = pc /\ cur' = cur
                /\ in_progress'[s] = NoArtifact /\ result_file'[s] = NoArtifact
                /\ \E k \in Keys : stem[k] = s /\ k \notin DOMAIN active_tasks'
                                     /\ k \notin DOMAIN status_cache'
       /\ last_op'.op = "get_file_status" => TouchedStems = {}
       /\ Len(tasks') > Len(tasks) => TouchedStems = {}
      ]_vars

C23_Witness ==
    /\ last_op.op = "get_file_status"
    /\ last_op.status = "completed"
    /\ in_progress[stem[last_op.filename]].exists
    /\ in_progress[stem[last_op.filename]].task_id # NoTask
    /\ result_file[stem[last_op.filename]].exists

\* C24: interrupt_processing(key) is a no-op that returns false unless key is
\* the Job being processed and a process handle is registered: without them
\* it changes nothing of the scheduler and the engine call keeps running;
\* with a registered handle and the matching key it returns true.
C24_InterruptResult ==
    [][/\ (interrupter.pc = "idle" /\ interrupter'.pc = "idle"
            /\ interrupter'.filename # interrupter.filename)
           => /\ ~CanInterrupt(interrupter'.filename)
              /\ interrupter'.returned = "false"
              /\ interrupter'.signals = interrupter.signals
              /\ interrupter'.process = interrupter.process
              /\ pc' = pc /\ tasks' = tasks /\ task_queue' = task_queue
              /\ active_tasks' = active_tasks
              /\ processing_task' = processing_task
              /\ current_process' = current_process
       /\ (interrupter.pc = "idle" /\ interrupter'.pc = "grace")
           => CanInterrupt(interrupter'.filename)
       /\ (interrupter.pc = "grace" /\ interrupter'.pc = "idle")
           => interrupter'.returned = "true"
      ]_vars

\* C25: interruption is cooperative with escalation: a process is killed
\* only after its graceful termination was requested and the grace period
\* has been waited, and only if it is still running then; a process that
\* exited during the grace period is never killed.
C25_GracefulThenForce ==
    [][\A i \in DOMAIN interrupter'.signals :
          (i \notin DOMAIN interrupter.signals
             /\ interrupter'.signals[i].sig = "kill")
          => /\ interrupter.pc = "grace"
             /\ interrupter.process = "running"
             /\ \E j \in DOMAIN interrupter.signals :
                   interrupter.signals[j] =
                      [sig |-> "terminate",
                       proc_id |-> interrupter'.signals[i].proc_id]
      ]_vars

\* C26: round trip: after a successful transcription the result artifact,
\* read back, yields a structured Result identical to the one the engine
\* adapter returned, field by field.
C26_ResultRoundTrip ==
    \A t \in DOMAIN tasks :
       LET artifact == result_file[stem[tasks[t].filename]]
           returned == [filename |-> tasks[t].filename,
                        request |-> tasks[t].transcribe_request]
       IN (tasks[t].status = "completed" /\ artifact.exists
             /\ artifact.result = returned)
          => load_result(artifact) = ResultJson(returned)

\* Job t is the Job of its filename in the registry of the TaskManager that
\* the routes and the FileManager use.
Submitted(t) ==
    /\ t \in DOMAIN tasks
    /\ tasks[t].filename \in DOMAIN active_tasks
    /\ active_tasks[tasks[t].filename] = t

\* C27: a Job submitted through the HTTP route or by the directory watcher
\* reaches the scheduler whose loop was started at start-up: once submitted
\* and not deleted (or replaced), it is eventually dequeued by that loop.
C27_SubmittedIsDequeued ==
    \A t \in 1..MaxJobs :
       Submitted(t) ~> (~Submitted(t) \/ attempts[t] >= 1)

\* The request POST /transcribe has just answered, if the last step was one.
Transcribed == last_op'.op = "transcribe"

\* What status_of gives for the file of that request before the step, the
\* file being there.
StatusBefore ==
    get_file_status(last_op'.filename, TRUE, status_cache, in_progress,
                    result_file, active_tasks, completed_tasks).status

\* Some existence check of that request found the file.
SourceExists == \E a \in DOMAIN last_op'.checks : last_op'.checks[a]

\* The step put a fresh Job of API priority for that file into the registry
\* (in place of the Job the file had, if any) and into the queue.
JobCreated ==
    /\ Len(tasks') = Len(tasks) + 1
    /\ tasks'[Len(tasks')].filename = last_op'.filename
    /\ tasks'[Len(tasks')].priority = API
    /\ tasks'[Len(tasks')].status = "pending"
    /\ active_tasks' = Put(remove_task(active_tasks, last_op'.filename),
                           last_op'.filename, Len(tasks'))
    /\ task_queue' = task_queue \cup {Len(tasks')}

\* C28: POST /transcribe creates (or replaces) a Job with API priority
\* exactly when the source file exists and its status is PENDING, ERROR or
\* unknown; when the status is COMPLETED or PROCESSING the registry and the
\* queue stay as they are and the answer carries that status.
C28_SubmissionMatrix ==
    [][Transcribed =>
          /\ JobCreated <=> (/\ SourceExists
                             /\ StatusBefore \in {"pending", "error",
                                                  "not_found"})
          /\ (SourceExists /\ StatusBefore \in {"completed", "processing"})
                => /\ tasks' = tasks
                   /\ active_tasks' = active_tasks
                   /\ completed_tasks' = completed_tasks
                   /\ task_queue' = task_queue
                   /\ last_op'.status = StatusBefore]_vars

\* A request has replaced the pending Job of its file ...
C28_Witness ==
    /\ last_op.op = "transcribe"
    /\ last_op.status = "pending"
    /\ Len(tasks) = 2
    /\ tasks[1].filename = tasks[2].filename
    /\ tasks[1].status = "pending"
    /\ active_tasks[tasks[2].filename] = 2

\* ... a request for a file in error has submitted it again ...
C28_WitnessError ==
    /\ last_op.op = "transcribe"
    /\ last_op.status = "pending"
    /\ Len(tasks) = 2
    /\ tasks[1].filename = tasks[2].filename
    /\ tasks[1].status = "error"

\* ... and a request was answered PROCESSING while the loop held the Job of
\* its file, and another COMPLETED.
C28_WitnessProcessing ==
    /\ last_op.op = "transcribe"
    /\ last_op.status = "processing"
    /\ processing_task # NoTask
    /\ tasks[processing_task].filename = last_op.filename

C28_WitnessCompleted ==
    /\ last_op.op = "transcribe"
    /\ last_op.status = "completed"
    /\ last_op.filename \in DOMAIN completed_tasks

\* C29: when the source file is absent at each of the 3 existence checks,
\* POST /transcribe answers FILE_NOT_FOUND and creates no Job: registry,
\* queue and artifacts are unchanged.
C29_NotFoundOnSubmit ==
    [][(Transcribed /\ \A a \in 1..3 : ~last_op'.checks[a]) =>
          /\ last_op'.status = "file_not_found"
          /\ tasks' = tasks
          /\ active_tasks' = active_tasks
          /\ completed_tasks' = completed_tasks
          /\ task_queue' = task_queue
          /\ in_progress' = in_progress
          /\ result_file' = result_file]_vars

\* A request for a file that is in the queue was answered FILE_NOT_FOUND,
\* the source file having gone.
C29_Witness ==
    /\ last_op.op = "transcribe"
    /\ last_op.status = "file_not_found"
    /\ last_op.filename \in DOMAIN active_tasks
    /\ active_tasks[last_op.filename] \in task_queue

\* The scan has handed the file to the scheduler: its Job of AUTO_SCAN
\* priority is in the registry and in the queue.
ScanSubmitted(k) ==
    /\ k \in DOMAIN active_tasks
    /\ tasks[active_tasks[k]].priority = AUTO_SCAN
    /\ active_tasks[k] \in task_queue

\* C30: the start-up scan submits, with AUTO_SCAN priority, every file of
\* the shared directory that has neither an in-progress nor a result
\* artifact and every file whose recorded status is ERROR, and no file whose
\* status is COMPLETED.
C30_StartupReconciliation ==
    last_op.op = "scan" =>
        \A k \in last_op.files :
            /\ (~in_progress[stem[k]].exists /\ ~result_file[stem[k]].exists)
                  => ScanSubmitted(k)
            /\ (in_progress[stem[k]].exists
                /\ in_progress[stem[k]].status = "error")
                  => ScanSubmitted(k)
            /\ ArtifactStatus(k) = "completed" => ~ScanSubmitted(k)

\* Loop l calls the engine adapter in this step: it is suspended in the
\* adapter afterwards, for a task or an attempt it was not in before.
EngineInvoked(l) ==
    /\ pc'[l] = "engine"
    /\ cur'[l] # NoTask
    /\ \/ pc[l] # "engine"
       \/ cur[l] # cur'[l]

\* C31: when the loop invokes the engine adapter for a Job it has dequeued,
\* the Job is already marked PROCESSING with started_at set and the
\* in-progress artifact of its file holds status processing, progress 0 and
\* the Job's id; an attempt is counted for no Job otherwise.
C31_MarkedBeforeEngine ==
    [][/\ \A l \in Loops :
             EngineInvoked(l) =>
                LET t == cur'[l]
                    filename == tasks'[t].filename
                IN /\ tasks'[t].status = "processing"
                   /\ tasks'[t].started_at # NoTime
                   /\ processing_task' = t
                   /\ in_progress'[stem[filename]].exists
                   /\ in_progress'[stem[filename]].status = "processing"
                   /\ in_progress'[stem[filename]].progress = 0
                   /\ in_progress'[stem[filename]].task_id = t
                   /\ attempts'[t] = attempts[t] + 1
       /\ \A t \in DOMAIN tasks :
             attempts'[t] # attempts[t] =>
                \E l \in Loops : EngineInvoked(l) /\ cur'[l] = t]_vars

\* The engine is running the second attempt of a Job, whose in-progress
\* artifact was written anew for it.
C31_Witness ==
    \E l \in Loops :
        /\ pc[l] = "engine"
        /\ attempts[cur[l]] = 2
        /\ tasks[cur[l]].status = "processing"
        /\ in_progress[stem[tasks[cur[l]].filename]].exists
        /\ in_progress[stem[tasks[cur[l]].filename]].task_id = cur[l]
        /\ in_progress[stem[tasks[cur[l]].filename]].progress = 0

\* A step of a client (a submission or a deletion): no loop moves.
ClientStep == pc' = pc /\ cur' = cur

\* C32: the retry backoff suspends the single worker. The step that fails a
\* Job for a retry leaves it PENDING, out of the queue and the registry as
\* it was; while the loop sleeps the backoff no loop invokes the engine,
\* whatever is submitted meanwhile, the Job stays PENDING and out of the
\* queue, and only clients change the registry; the Job is put back by the
\* step that ends the sleep.
C32_BackoffSuspendsWorker ==
    [][\A l \in Loops :
          LET t == cur[l]
          IN /\ (pc[l] = "engine" /\ pc'[l] = "backoff") =>
                   /\ cur'[l] = t
                   /\ tasks'[t].status = "pending"
                   /\ t \notin task_queue'
                   /\ task_queue' = task_queue
                   /\ active_tasks' = active_tasks
                   /\ delay'[l] >= 1
             /\ (pc[l] = "backoff" /\ pc'[l] = "backoff") =>
                   /\ cur'[l] = t
                   /\ tasks'[t].status = "pending"
                   /\ t \notin task_queue'
                   /\ \A m \in Loops : ~EngineInvoked(m)
                   /\ attempts' \in {attempts, Append(attempts, 0)}
                   /\ active_tasks' # active_tasks => ClientStep
             /\ (pc[l] = "backoff" /\ pc'[l] # "backoff") =>
                   /\ t \notin task_queue
                   /\ \/ t \in task_queue'
                      \/ pc'[l] = "engine" /\ cur'[l] = t
                      \/ tasks[t].filename \notin DOMAIN active_tasks]_vars

\* The loop sleeps the backoff of a Job of AUTO_SCAN priority while a Job of
\* API priority, submitted meanwhile for another file, waits in the queue.
C32_Witness ==
    \E l \in Loops :
        /\ pc[l] = "backoff"
        /\ tasks[cur[l]].priority = AUTO_SCAN
        /\ tasks[cur[l]].filename \in DOMAIN active_tasks
        /\ active_tasks[tasks[cur[l]].filename] = cur[l]
        /\ \E u \in task_queue :
              /\ tasks[u].priority = API
              /\ tasks[u].status = "pending"
              /\ tasks[u].filename # tasks[cur[l]].filename
              /\ u > cur[l]

\* C33: strict service order. When a loop starts processing a Job, no other
\* Job that is PENDING in the registry precedes it in (priority, created_at)
\* order; and no step changes the priority or the created_at of a Job, so a
\* retried Job is ordered by the ones it was submitted with.
C33_StrictServiceOrder ==
    [][/\ \A l \in Loops :
             EngineInvoked(l) =>
                \A f \in DOMAIN active_tasks' :
                   LET u == active_tasks'[f]
                   IN (u # cur'[l] /\ tasks'[u].status = "pending")
                         => ~Precedes(tasks'[u], tasks'[cur'[l]])
       /\ \A t \in DOMAIN tasks :
             /\ tasks'[t].priority = tasks[t].priority
             /\ tasks'[t].created_at = tasks[t].created_at]_vars

\* A retried Job of API priority is processed again while a Job of another
\* file, submitted later and during its first attempt, is PENDING in the
\* registry.
C33_Witness ==
    \E l \in Loops :
        /\ pc[l] = "engine"
        /\ attempts[cur[l]] = 2
        /\ \E f \in DOMAIN active_tasks :
              /\ active_tasks[f] # cur[l]
              /\ f # tasks[cur[l]].filename
              /\ tasks[active_tasks[f]].status = "pending"
              /\ Precedes(tasks[cur[l]], tasks[active_tasks[f]])

\* Job t finishes in this step: it becomes COMPLETED or ERROR.
Finishes(t) ==
    /\ tasks[t].status = "processing"
    /\ tasks'[t].status \in {"completed", "error"}

\* C34: only a Job's own terminal transition removes it from the registry.
\* When a Job finishes while another Job is registered under its key, that
\* other Job stays registered (and is therefore still valid in the queue).
C34_OwnEntryRemoved ==
    [][\A t \in DOMAIN tasks :
          Finishes(t) =>
             LET f == tasks[t].filename
             IN (f \in DOMAIN active_tasks /\ active_tasks[f] # t)
                   => /\ f \in DOMAIN active_tasks'
                      /\ active_tasks'[f] = active_tasks[f]]_vars

\* A later submission of the same file has replaced Job t.
Replaced(t) ==
    \E u \in DOMAIN tasks : u > t /\ tasks[u].filename = tasks[t].filename

\* C35: with the loop running and every engine call ending, every Job that
\* is submitted and not replaced (nobody deletes) eventually is COMPLETED or
\* ERROR.
C35_EveryJobFinishes ==
    \A t \in 1..MaxJobs :
        (t \in DOMAIN tasks)
           ~> (/\ t \in DOMAIN tasks
               /\ \/ Replaced(t)
                  \/ tasks[t].status \in {"completed", "error"})

\* The loop has halted: no coroutine of start_processing is left and
\* processing_active is false.
LoopHalted == ~processing_active /\ \A l \in Loops : pc[l] = "idle"

\* C36: a stop request is never lost. Once stop() has been called, the loop
\* eventually halts with processing_active false, for good: it processes no
\* further Job.
C36_StopNeverLost == [](stopper # NoStop => <>[]LoopHalted)

\* C37: the reported status agrees with the scheduler. Whenever status_of
\* answers PROCESSING for a key, the scheduler's currently active Job is a
\* Job of that key and its status is PROCESSING.
C37_ProcessingIsActive ==
    \A k \in Keys :
        StatusOf(k, TRUE) = "processing"
           => /\ processing_task # NoTask
              /\ tasks[processing_task].filename = k
              /\ tasks[processing_task].status = "processing"

\* Loop l dequeues from the state before the step and starts what it got:
\* the step begins at the top of the while loop.
DequeuesAtTop(l) ==
    /\ pc[l] \in {"idle", "sleep_empty", "created"}
    /\ pc'[l] = "engine"

\* C38: position agrees with extraction. When the loop is about to dequeue
\* and position_of(key) = 1, the Job the dequeue returns is the Job
\* registered for key.
C38_PositionOneIsNext ==
    [][\A l \in Loops :
          DequeuesAtTop(l) =>
             \A k \in DOMAIN active_tasks :
                get_queue_position(k, active_tasks, tasks) = 1
                   => cur'[l] = active_tasks[k]]_vars

\* The stale entries of the queue: the Jobs that are no longer in the
\* registry, removed or replaced by a later submission of their file.
StaleEntries ==
    {q \in task_queue :
        \/ tasks[q].filename \notin DOMAIN active_tasks
        \/ active_tasks[tasks[q].filename] # q}

\* Loop l calls get_highest_priority_task on the state before the step: it
\* is at the top of the while loop and moves on to the engine (the call
\* returned a Job) or to the sleep on an empty queue (it returned None).
DequeueCall(l) ==
    /\ pc[l] \in {"idle", "sleep_empty", "created"}
    /\ pc'[l] \in {"engine", "sleep_empty"}
    /\ pc'[l] # pc[l]

\* C39: the frame of dequeue_highest. A call takes out of the queue exactly
\* the Job it returns and the stale entries and puts every other entry
\* back; it leaves the registry, the completed-history and the statistics
\* as they are; it returns None only when the queue has no valid entry.
C39_DequeueFrame ==
    [][\A l \in Loops :
          DequeueCall(l) =>
             LET returned == IF pc'[l] = "engine" THEN {cur'[l]} ELSE {}
             IN /\ task_queue' \subseteq task_queue
                /\ task_queue \ task_queue' = returned \cup StaleEntries
                /\ returned = {} => task_queue \subseteq StaleEntries
                /\ active_tasks' = active_tasks
                /\ completed_tasks' = completed_tasks
                /\ stats' = stats]_vars

====
